---- MODULE Spec2Model ----
(***************************************************************************)
(* ohmcord signaling relay (apps/server/src/index.ts, rooms.ts,            *)
(* protocol.ts): the room registry and the per-connection message handler. *)
(*                                                                         *)
(* A connection is identified by the peerId the server assigns to it.      *)
(* Every handler is a function from the server state (the client objects   *)
(* held by the connection closures and the rooms map) to the new server    *)
(* state and the batch of messages it sends; one action per handler        *)
(* applies it atomically (Node runs each "message"/"close" callback to     *)
(* completion).                                                            *)
(***************************************************************************)
EXTENDS Integers, Sequences, FiniteSets, TLC

VARIABLES
  clients,   \* peerId -> Client, for the connections that are open
  used,      \* peerIds already handed out by randomUUID()
  rooms,     \* roomId -> Room (the module-level Map of rooms.ts)
  sent,      \* the messages written to sockets by the last callback, in order
  last,      \* the event the last callback handled: [from, msg]
  handled,   \* number of callbacks (connection, message, close) run so far
  inbox,     \* history: peerId -> every message written to its socket, in order
  trace,     \* history: every event handled, in order
  signaling, \* one desktop SignalingClient, its sockets and its timers
  mesh       \* host -> the PeerMesh of that desktop and its signaling traffic

server == <<clients, used, rooms, sent, last, handled>>
hist == <<inbox, trace>>
desktop == <<signaling, mesh>>
vars == <<clients, used, rooms, sent, last, handled, inbox, trace, signaling, mesh>>

\* ------------------------------------------------------------------ bounds
NumClients == 3
NumRooms == 2
MaxEvents == 6

Peers == 1..NumClients
RoomIds == 1..NumRooms
\* client.roomId = null
NoRoom == 0
Names == {"nick"}
Payloads == {"sdp-a", "sdp-b"}
Channels == {"general"}
Texts == {"hi"}

\* ------------------------------------------------- Map<peerId, Client> helpers
\* A JS Map keyed by peerId keeps insertion order: modelled as a sequence of
\* peerIds without repetition (the Client value is the connection's object).
Range(s) == {s[i] : i \in 1..Len(s)}

mapSet(s, p) == IF p \in Range(s) THEN s ELSE Append(s, p)

mapDelete(s, p) == SelectSeq(s, LAMBDA x : x # p)

RECURSIVE mapSetAll(_, _)
mapSetAll(s, t) == IF t = <<>> THEN s ELSE mapSetAll(mapSet(s, Head(t)), Tail(t))

\* ------------------------------------------------------------------ rooms.ts
emptyRoom == [clients |-> <<>>, watchers |-> <<>>]

getOrCreateRoom(rs, r) == IF r \in DOMAIN rs THEN rs ELSE rs @@ (r :> emptyRoom)

deleteRoomIfEmpty_keepWatched(rs, r) ==
  IF r \in DOMAIN rs /\ rs[r].clients = <<>>
    THEN [x \in DOMAIN rs \ {r} |-> rs[x]]
    ELSE rs

deleteRoomIfEmpty(rs, r) ==
  IF r \in DOMAIN rs /\ rs[r].clients = <<>> /\ rs[r].watchers = <<>>
    THEN [x \in DOMAIN rs \ {r} |-> rs[x]]
    ELSE rs

RECURSIVE removeWatcherFrom(_, _, _)
removeWatcherFrom(rs, todo, p) ==
  IF todo = {} THEN rs
  ELSE LET r == CHOOSE x \in todo : TRUE
           rs1 == [rs EXCEPT ![r].watchers = mapDelete(@, p)]
       IN removeWatcherFrom(deleteRoomIfEmpty(rs1, r), todo \ {r}, p)

removeWatcherFromAllRooms(rs, p) == removeWatcherFrom(rs, DOMAIN rs, p)

\* ------------------------------------------------------------------ index.ts
newClient == [displayName |-> "Anonymous", roomId |-> NoRoom,
              micOn |-> FALSE, deafened |-> FALSE]

send(out, to, msg) == Append(out, [to |-> to, msg |-> msg])

RECURSIVE sendEach_stopEarly(_, _, _, _)
sendEach_stopEarly(out, seq, skip, msg) ==
  IF Len(seq) <= 1 THEN out
  ELSE sendEach_stopEarly(IF Head(seq) \in skip THEN out ELSE send(out, Head(seq), msg),
                          Tail(seq), skip, msg)

\* for (const other of seq) { if (other.peerId in skip) continue; send(other.ws, msg) }
RECURSIVE sendEach(_, _, _, _)
sendEach(out, seq, skip, msg) ==
  IF seq = <<>> THEN out
  ELSE sendEach(IF Head(seq) \in skip THEN out ELSE send(out, Head(seq), msg),
                Tail(seq), skip, msg)

toPeerSummary(cs, p) ==
  [peerId |-> p, displayName |-> cs[p].displayName,
   micOn |-> cs[p].micOn, deafened |-> cs[p].deafened]

summaries(cs, seq) == [i \in 1..Len(seq) |-> toPeerSummary(cs, seq[i])]

roomRecipients_concat(room) == room.clients \o room.watchers

roomRecipients(room) == mapSetAll(room.clients, room.watchers)

\* The server state a handler works on, and the messages it has sent so far.
Cur == [clients |-> clients, rooms |-> rooms, out |-> <<>>]

leaveCurrentRoom_keepRoomId(S, p) ==
  LET r == S.clients[p].roomId IN
  IF r = NoRoom THEN S
  ELSE IF r \notin DOMAIN S.rooms THEN [S EXCEPT !.clients[p].roomId = NoRoom]
  ELSE LET rs1 == [S.rooms EXCEPT ![r].clients = mapDelete(@, p)]
           o1 == sendEach(S.out, rs1[r].clients, {},
                          [type |-> "peer-left", roomId |-> r, peerId |-> p])
           o2 == sendEach(o1, roomRecipients(rs1[r]), {p},
                          [type |-> "room-peer-left", roomId |-> r, peerId |-> p])
       IN [clients |-> S.clients,
           rooms |-> deleteRoomIfEmpty(rs1, r),
           out |-> o2]

leaveCurrentRoom(S, p) ==
  LET r == S.clients[p].roomId IN
  IF r = NoRoom THEN S
  ELSE IF r \notin DOMAIN S.rooms THEN [S EXCEPT !.clients[p].roomId = NoRoom]
  ELSE LET rs1 == [S.rooms EXCEPT ![r].clients = mapDelete(@, p)]
           o1 == sendEach(S.out, rs1[r].clients, {},
                          [type |-> "peer-left", roomId |-> r, peerId |-> p])
           o2 == sendEach(o1, roomRecipients(rs1[r]), {p},
                          [type |-> "room-peer-left", roomId |-> r, peerId |-> p])
       IN [clients |-> [S.clients EXCEPT ![p].roomId = NoRoom],
           rooms |-> deleteRoomIfEmpty(rs1, r),
           out |-> o2]

\* wss.on("connection"): a fresh peerId, a new Client, the welcome message.
connection(S, p) ==
  [clients |-> S.clients @@ (p :> newClient),
   rooms |-> S.rooms,
   out |-> send(S.out, p, [type |-> "welcome", peerId |-> p])]

join_noLeave(S, p, r, n) ==
  LET S1 == S
      cs == [S1.clients EXCEPT ![p].displayName = n, ![p].roomId = r]
      rs0 == getOrCreateRoom(S1.rooms, r)
      rs == [rs0 EXCEPT ![r].clients = mapSet(@, p)]
      peers == summaries(cs, mapDelete(rs[r].clients, p))
      o1 == send(S1.out, p, [type |-> "peers", roomId |-> r, peers |-> peers])
      o2 == sendEach(o1, rs[r].clients, {p},
                     [type |-> "peer-joined", roomId |-> r, peer |-> toPeerSummary(cs, p)])
      o3 == sendEach(o2, roomRecipients(rs[r]), {p},
                     [type |-> "room-peer-joined", roomId |-> r, peer |-> toPeerSummary(cs, p)])
  IN [clients |-> cs, rooms |-> rs, out |-> o3]

join_peersIncludeSelf(S, p, r, n) ==
  LET S1 == leaveCurrentRoom(S, p)
      cs == [S1.clients EXCEPT ![p].displayName = n, ![p].roomId = r]
      rs0 == getOrCreateRoom(S1.rooms, r)
      rs == [rs0 EXCEPT ![r].clients = mapSet(@, p)]
      peers == summaries(cs, rs[r].clients)
      o1 == send(S1.out, p, [type |-> "peers", roomId |-> r, peers |-> peers])
      o2 == sendEach(o1, rs[r].clients, {p},
                     [type |-> "peer-joined", roomId |-> r, peer |-> toPeerSummary(cs, p)])
      o3 == sendEach(o2, roomRecipients(rs[r]), {p},
                     [type |-> "room-peer-joined", roomId |-> r, peer |-> toPeerSummary(cs, p)])
  IN [clients |-> cs, rooms |-> rs, out |-> o3]

join(S, p, r, n) ==
  LET S1 == leaveCurrentRoom(S, p)
      cs == [S1.clients EXCEPT ![p].displayName = n, ![p].roomId = r]
      rs0 == getOrCreateRoom(S1.rooms, r)
      rs == [rs0 EXCEPT ![r].clients = mapSet(@, p)]
      peers == summaries(cs, mapDelete(rs[r].clients, p))
      o1 == send(S1.out, p, [type |-> "peers", roomId |-> r, peers |-> peers])
      o2 == sendEach(o1, rs[r].clients, {p},
                     [type |-> "peer-joined", roomId |-> r, peer |-> toPeerSummary(cs, p)])
      o3 == sendEach(o2, roomRecipients(rs[r]), {p},
                     [type |-> "room-peer-joined", roomId |-> r, peer |-> toPeerSummary(cs, p)])
  IN [clients |-> cs, rooms |-> rs, out |-> o3]

watch_push(S, p, r) ==
  LET rs0 == getOrCreateRoom(S.rooms, r)
      rs == [rs0 EXCEPT ![r].watchers = Append(@, p)]
  IN [clients |-> S.clients, rooms |-> rs,
      out |-> send(S.out, p, [type |-> "room-peers", roomId |-> r,
                              peers |-> summaries(S.clients, rs[r].clients)])]

watch(S, p, r) ==
  LET rs0 == getOrCreateRoom(S.rooms, r)
      rs == [rs0 EXCEPT ![r].watchers = mapSet(@, p)]
  IN [clients |-> S.clients, rooms |-> rs,
      out |-> send(S.out, p, [type |-> "room-peers", roomId |-> r,
                              peers |-> summaries(S.clients, rs[r].clients)])]

unwatch(S, p, r) ==
  IF r \notin DOMAIN S.rooms THEN S
  ELSE [S EXCEPT !.rooms =
          deleteRoomIfEmpty([S.rooms EXCEPT ![r].watchers = mapDelete(@, p)], r)]

\* The guard of the state handler: the caller has a room, it exists, and it is
\* the room the message names.
stateAccepted_anyRoom(S, p, r) ==
  /\ S.clients[p].roomId # NoRoom
  /\ S.clients[p].roomId \in DOMAIN S.rooms

stateAccepted(S, p, r) ==
  /\ S.clients[p].roomId # NoRoom
  /\ S.clients[p].roomId \in DOMAIN S.rooms
  /\ r = S.clients[p].roomId

state(S, p, r, m, d) ==
  IF ~stateAccepted(S, p, r) THEN S
  ELSE LET cs == [S.clients EXCEPT ![p].micOn = m, ![p].deafened = d]
           room == S.rooms[cs[p].roomId]
       IN [clients |-> cs, rooms |-> S.rooms,
           out |-> sendEach(S.out, roomRecipients(room), {p},
                            [type |-> "peer-state", roomId |-> cs[p].roomId, peerId |-> p,
                             micOn |-> cs[p].micOn, deafened |-> cs[p].deafened])]

leave_silent(S, p) == [leaveCurrentRoom(S, p) EXCEPT !.out = S.out]

\* "leave"
leave(S, p) == leaveCurrentRoom(S, p)

\* "Everything else requires room membership"
inRoom(S, p) ==
  /\ S.clients[p].roomId # NoRoom
  /\ S.clients[p].roomId \in DOMAIN S.rooms

relayTarget_anyRoom(S, p, to) == to \in DOMAIN S.clients

\* room.clients.get(msg.to) is defined
relayTarget(S, p, to) == to \in Range(S.rooms[S.clients[p].roomId].clients)

\* offer / answer / ice: kind is the message type, payload its sdp or candidate.
relay(S, p, kind, to, payload) ==
  IF ~inRoom(S, p) THEN S
  ELSE IF ~relayTarget(S, p, to) THEN S
  ELSE [S EXCEPT !.out =
          IF kind = "ice"
            THEN send(S.out, to, [type |-> kind, from |-> p, candidate |-> payload])
            ELSE send(S.out, to, [type |-> kind, from |-> p, sdp |-> payload])]

fanoutAccepted_watcher(S, p, r) ==
  /\ inRoom(S, p)
  /\ r \in DOMAIN S.rooms
  /\ r = S.clients[p].roomId \/ p \in Range(S.rooms[r].watchers)

\* msg.roomId !== room.roomId, for text and vad
fanoutAccepted(S, p, r) == inRoom(S, p) /\ r = S.clients[p].roomId

\* ts (Date.now()) is a wall-clock reading and is left out of the payload.
text(S, p, r, ch, message) ==
  IF ~fanoutAccepted(S, p, r) THEN S
  ELSE [S EXCEPT !.out =
          sendEach(S.out, S.rooms[r].clients, {},
                   [type |-> "text", roomId |-> r, channelId |-> ch,
                    from |-> toPeerSummary(S.clients, p), message |-> message])]

vad_includeSelf(S, p, r, speaking) ==
  IF ~fanoutAccepted(S, p, r) THEN S
  ELSE [S EXCEPT !.out =
          sendEach(S.out, S.rooms[S.clients[p].roomId].clients, {},
                   [type |-> "vad", roomId |-> S.clients[p].roomId, from |-> p,
                    speaking |-> speaking])]

vad(S, p, r, speaking) ==
  IF ~fanoutAccepted(S, p, r) THEN S
  ELSE [S EXCEPT !.out =
          sendEach(S.out, S.rooms[S.clients[p].roomId].clients, {p},
                   [type |-> "vad", roomId |-> S.clients[p].roomId, from |-> p,
                    speaking |-> speaking])]

close_leaveOnly(S, p) ==
  LET S1 == leaveCurrentRoom(S, p)
  IN [clients |-> [q \in DOMAIN S1.clients \ {p} |-> S1.clients[q]],
      rooms |-> S1.rooms,
      out |-> S1.out]

\* ws.on("close"): leave, drop every watch; the closure's client is unreachable after.
close(S, p) ==
  LET S1 == leaveCurrentRoom(S, p)
  IN [clients |-> [q \in DOMAIN S1.clients \ {p} |-> S1.clients[q]],
      rooms |-> removeWatcherFromAllRooms(S1.rooms, p),
      out |-> S1.out]

\* ------------------------------------------------------- protocol.ts
\* The client-to-server messages that pass ClientToServer.safeParse.
JoinMsgs == {[type |-> "join", roomId |-> r, user |-> [displayName |-> n]] :
               r \in RoomIds, n \in Names}
WatchMsgs == {[type |-> "watch", roomId |-> r] : r \in RoomIds}
UnwatchMsgs == {[type |-> "unwatch", roomId |-> r] : r \in RoomIds}
LeaveMsgs == {[type |-> "leave"]}
StateMsgs == {[type |-> "state", roomId |-> r, micOn |-> m, deafened |-> d] :
                r \in RoomIds, m \in BOOLEAN, d \in BOOLEAN}
RelayMsgs == {[type |-> k, to |-> to, sdp |-> x] :
                k \in {"offer", "answer"}, to \in Peers, x \in Payloads}
              \cup {[type |-> "ice", to |-> to, candidate |-> x] :
                      to \in Peers, x \in Payloads}
TextMsgs == {[type |-> "text", roomId |-> r, channelId |-> ch, message |-> x] :
               r \in RoomIds, ch \in Channels, x \in Texts}
VadMsgs == {[type |-> "vad", roomId |-> r, speaking |-> b] :
              r \in RoomIds, b \in BOOLEAN}

Msgs == JoinMsgs \cup WatchMsgs \cup UnwatchMsgs \cup LeaveMsgs \cup StateMsgs
        \cup RelayMsgs \cup TextMsgs \cup VadMsgs

\* ws.on("message"): the dispatch on msg.type.
handle(S, p, msg) ==
  IF msg.type = "join" THEN join(S, p, msg.roomId, msg.user.displayName)
  ELSE IF msg.type = "watch" THEN watch(S, p, msg.roomId)
  ELSE IF msg.type = "unwatch" THEN unwatch(S, p, msg.roomId)
  ELSE IF msg.type = "state" THEN state(S, p, msg.roomId, msg.micOn, msg.deafened)
  ELSE IF msg.type = "leave" THEN leave(S, p)
  ELSE IF msg.type \in {"offer", "answer"} THEN relay(S, p, msg.type, msg.to, msg.sdp)
  ELSE IF msg.type = "ice" THEN relay(S, p, msg.type, msg.to, msg.candidate)
  ELSE IF msg.type = "text" THEN text(S, p, msg.roomId, msg.channelId, msg.message)
  ELSE IF msg.type = "vad" THEN vad(S, p, msg.roomId, msg.speaking)
  ELSE S

\* ---------------------------------------------- data as it arrives
\* What ws hands to the "message" callback: text that JSON.parse rejects
\* (syntaxOk FALSE), or text that parses to the JSON value json.  A RoomId is
\* a string of 1..64 characters: LongRoomId is one of 65.
LongRoomId == NumRooms + 1
IsRoomId(x) == x \in RoomIds
IsPeerId(x) == x \in Peers
has(json, f) == f \in DOMAIN json

\* safeParseMessage returns null
null == [type |-> "null"]

safeParse_anyRoomId(json) ==
  IF ~has(json, "type") THEN null
  ELSE IF json.type = "watch" /\ has(json, "roomId")
    THEN [type |-> "watch", roomId |-> json.roomId]
  ELSE null

\* ClientToServer.safeParse: the data of a value that matches one member of
\* the discriminated union (z.object keeps the keys of the schema and strips
\* every other key), null for a value that matches none.  z.unknown() accepts
\* any candidate; the values parsed here always carry one.
safeParse(json) ==
  IF ~has(json, "type") THEN null
  ELSE IF json.type = "join"
    THEN IF /\ has(json, "roomId") /\ IsRoomId(json.roomId)
            /\ has(json, "user") /\ has(json.user, "displayName")
            /\ json.user.displayName \in Names
           THEN [type |-> "join", roomId |-> json.roomId,
                 user |-> [displayName |-> json.user.displayName]]
           ELSE null
  ELSE IF json.type \in {"watch", "unwatch"}
    THEN IF has(json, "roomId") /\ IsRoomId(json.roomId)
           THEN [type |-> json.type, roomId |-> json.roomId]
           ELSE null
  ELSE IF json.type = "leave" THEN [type |-> "leave"]
  ELSE IF json.type = "state"
    THEN IF /\ has(json, "roomId") /\ IsRoomId(json.roomId)
            /\ has(json, "micOn") /\ json.micOn \in BOOLEAN
            /\ has(json, "deafened") /\ json.deafened \in BOOLEAN
           THEN [type |-> "state", roomId |-> json.roomId,
                 micOn |-> json.micOn, deafened |-> json.deafened]
           ELSE null
  ELSE IF json.type \in {"offer", "answer"}
    THEN IF /\ has(json, "to") /\ IsPeerId(json.to)
            /\ has(json, "sdp") /\ json.sdp \in Payloads
           THEN [type |-> json.type, to |-> json.to, sdp |-> json.sdp]
           ELSE null
  ELSE IF json.type = "ice"
    THEN IF has(json, "to") /\ IsPeerId(json.to) /\ has(json, "candidate")
           THEN [type |-> "ice", to |-> json.to, candidate |-> json.candidate]
           ELSE null
  ELSE IF json.type = "text"
    THEN IF /\ has(json, "roomId") /\ IsRoomId(json.roomId)
            /\ has(json, "channelId") /\ json.channelId \in Channels
            /\ has(json, "message") /\ json.message \in Texts
           THEN [type |-> "text", roomId |-> json.roomId,
                 channelId |-> json.channelId, message |-> json.message]
           ELSE null
  ELSE IF json.type = "vad"
    THEN IF /\ has(json, "roomId") /\ IsRoomId(json.roomId)
            /\ has(json, "speaking") /\ json.speaking \in BOOLEAN
           THEN [type |-> "vad", roomId |-> json.roomId, speaking |-> json.speaking]
           ELSE null
  ELSE null

\* JSON.parse throws on text that is not JSON: the catch returns null.
safeParseMessage(raw) == IF ~raw.syntaxOk THEN null ELSE safeParse(raw.json)

message_trustClaimed(S, p, raw) ==
  LET msg == safeParseMessage(raw)
      who == IF /\ raw.syntaxOk
                /\ has(raw.json, "peerId")
                /\ raw.json.peerId \in DOMAIN S.clients
               THEN raw.json.peerId ELSE p
  IN IF msg = null THEN S ELSE handle(S, who, msg)

\* ws.on("message"): const msg = safeParseMessage(data.toString());
\* if (!msg) return; then the dispatch.
message(S, p, raw) ==
  LET msg == safeParseMessage(raw)
  IN IF msg = null THEN S ELSE handle(S, p, msg)

\* Data no handler accepts: not JSON, no type, an unknown type, a missing
\* field, a field of the wrong shape.
Malformed ==
  {[syntaxOk |-> FALSE]}
  \cup {[syntaxOk |-> TRUE, json |-> j] :
          j \in {[roomId |-> 1],
                 [type |-> "kick", to |-> 1],
                 [type |-> "join", roomId |-> 1],
                 [type |-> "watch", roomId |-> LongRoomId],
                 [type |-> "state", roomId |-> 1, micOn |-> TRUE],
                 [type |-> "vad", roomId |-> LongRoomId, speaking |-> TRUE],
                 [type |-> "offer", to |-> 1]}}

\* The participants a message may falsely name as its originator.
Claimed == {1, 2}

\* Well-formed messages that also name a participant q as their originator
\* in keys the schema does not have.
Claiming ==
  {[syntaxOk |-> TRUE, json |-> j] :
     j \in UNION {
       {[type |-> "join", roomId |-> r, peerId |-> q,
         user |-> [displayName |-> "nick", peerId |-> q]] : r \in RoomIds}
       \cup
       {[type |-> "watch", roomId |-> 1, peerId |-> q],
        [type |-> "state", roomId |-> 1, micOn |-> TRUE, deafened |-> FALSE,
         peerId |-> q],
        [type |-> "text", roomId |-> 1, channelId |-> "general", message |-> "hi",
         peerId |-> q, from |-> [peerId |-> q, displayName |-> "nick"]],
        [type |-> "vad", roomId |-> 1, speaking |-> TRUE, peerId |-> q, from |-> q],
        [type |-> "leave", peerId |-> q]}
       \cup
       UNION {
         {[type |-> "offer", to |-> t, sdp |-> "sdp-a", peerId |-> q, from |-> q],
          [type |-> "ice", to |-> t, candidate |-> "sdp-b", peerId |-> q, from |-> q]}
           : t \in Peers} : q \in Claimed}}

RawData == Malformed \cup Claiming

\* The messages of a batch written to q's socket, in order.
To(out, q) == SelectSeq(out, LAMBDA x : x.to = q)

\* ------------------------------------ desktop: net/signalingClient.ts
\* The client object K: its fields ws, intentionalClose, reconnectTimer and
\* reconnectAttempts, the WebSocket objects it has created (sockets[s] is the
\* readyState of the s-th), the timers window.setTimeout holds for it, and
\* what its caller and the network have done so far.
NoSocket == 0
NoTimer == 0

MaxCalls == 4
MaxDrops == 5
Jitters == {0, 249}

newSignalingClient ==
  [ws |-> NoSocket, intentionalClose |-> FALSE, reconnectTimer |-> NoTimer,
   reconnectAttempts |-> 0,
   sockets |-> <<>>, timers |-> {}, timersSet |-> 0,
   lastCall |-> "new", calls |-> 0, drops |-> 0, opened |-> FALSE,
   event |-> [type |-> "new"]]

InitSignaling == signaling = newSignalingClient

RECURSIVE Pow2(_)
Pow2(n) == IF n = 0 THEN 1 ELSE 2 * Pow2(n - 1)
Min(a, b) == IF a <= b THEN a ELSE b

\* private createWebSocket(): new WebSocket(url); this.ws = ws
createWebSocket(K) ==
  [K EXCEPT !.sockets = Append(@, "CONNECTING"), !.ws = Len(K.sockets) + 1]

\* connect()
connect(K) ==
  IF K.ws # NoSocket THEN K
  ELSE createWebSocket([K EXCEPT !.intentionalClose = FALSE])

\* if (this.reconnectTimer !== null) { window.clearTimeout(..); this.reconnectTimer = null }
clearReconnectTimer(K) ==
  IF K.reconnectTimer = NoTimer THEN K
  ELSE [K EXCEPT !.timers = {t \in @ : t.id # K.reconnectTimer},
                 !.reconnectTimer = NoTimer]

onopen_keepAttempts(K) == clearReconnectTimer([K EXCEPT !.opened = TRUE])

\* the "open" listener; opened: an open event has fired since the last
\* reconnect was scheduled
onopen(K) == clearReconnectTimer([K EXCEPT !.reconnectAttempts = 0, !.opened = TRUE])

scheduleReconnect_uncapped(K, jitter) ==
  IF K.reconnectTimer # NoTimer THEN K
  ELSE LET attempt == K.reconnectAttempts
           base == 1000 * Pow2(attempt)
           delay == base + jitter
           id == K.timersSet + 1
       IN [K EXCEPT !.reconnectAttempts = @ + 1,
                    !.opened = FALSE,
                    !.reconnectTimer = id,
                    !.timersSet = id,
                    !.timers = @ \cup {[id |-> id, delay |-> delay]}]

\* private scheduleReconnect(), jitter = Math.floor(Math.random() * 250)
scheduleReconnect(K, jitter) ==
  IF K.reconnectTimer # NoTimer THEN K
  ELSE LET attempt == K.reconnectAttempts
           base == Min(1000 * Pow2(attempt), 10000)
           delay == base + jitter
           id == K.timersSet + 1
       IN [K EXCEPT !.reconnectAttempts = @ + 1,
                    !.opened = FALSE,
                    !.reconnectTimer = id,
                    !.timersSet = id,
                    !.timers = @ \cup {[id |-> id, delay |-> delay]}]

\* the "close" listener
onclose(K, jitter) ==
  LET K1 == [K EXCEPT !.ws = NoSocket]
  IN IF ~K1.intentionalClose THEN scheduleReconnect(K1, jitter) ELSE K1

\* the function scheduleReconnect hands to window.setTimeout
reconnectCallback(K) ==
  LET K1 == [K EXCEPT !.reconnectTimer = NoTimer]
  IN IF K1.intentionalClose THEN K1
     ELSE IF K1.ws # NoSocket THEN K1
     ELSE createWebSocket(K1)

disconnect_keepTimer(K) ==
  LET K1 == [K EXCEPT !.intentionalClose = TRUE]
  IN IF K1.ws = NoSocket THEN K1
     ELSE [K1 EXCEPT !.sockets[K1.ws] = IF @ = "CLOSED" THEN @ ELSE "CLOSING",
                     !.ws = NoSocket]

\* disconnect(); ws.close() leaves the socket CLOSING until its close event
disconnect(K) ==
  LET K1 == clearReconnectTimer([K EXCEPT !.intentionalClose = TRUE])
  IN IF K1.ws = NoSocket THEN K1
     ELSE [K1 EXCEPT !.sockets[K1.ws] = IF @ = "CLOSED" THEN @ ELSE "CLOSING",
                     !.ws = NoSocket]

\* --------------------------------------- desktop: PeerMesh (peerMesh.ts)
\* Peer identifiers as the desktop sees them: strings, here of IdLen letters.
IdLen == 2
Letters == {"a", "b"}
Ids == [1..IdLen -> Letters]

\* String.prototype.localeCompare with no locales argument compares under
\* the default locale of the host it runs on.  Two collations: "en" orders
\* strings letter by letter; "da" also reads "aa" as one letter (the
\* Danish a-ring) that sorts after every other letter.
Locales == {"en", "da"}
LetterWeight(x) == IF x = "a" THEN 1 ELSE 2
ARingWeight == 3

RECURSIVE collationKey(_, _)
collationKey(str, loc) ==
  IF str = <<>> THEN <<>>
  ELSE IF loc = "da" /\ Len(str) >= 2 /\ str[1] = "a" /\ str[2] = "a"
    THEN <<ARingWeight>> \o collationKey(SubSeq(str, 3, Len(str)), loc)
  ELSE <<LetterWeight(str[1])>> \o collationKey(Tail(str), loc)

RECURSIVE compareKeys(_, _)
compareKeys(k1, k2) ==
  IF k1 = <<>> /\ k2 = <<>> THEN 0
  ELSE IF k1 = <<>> THEN -1
  ELSE IF k2 = <<>> THEN 1
  ELSE IF Head(k1) < Head(k2) THEN -1
  ELSE IF Head(k1) > Head(k2) THEN 1
  ELSE compareKeys(Tail(k1), Tail(k2))

localeCompare(str, that, loc) == compareKeys(collationKey(str, loc), collationKey(that, loc))

\* localAudioTrack = null, micAudioSender = undefined
NoTrack == 0

\* pc.remoteDescription = null
NoSdp == [type |-> "none"]

\* A host M: the PeerMesh of one desktop (mesh: meshRef.current is set) with
\* its localPeerId and peers map, the locale of the host, the signaling
\* messages on their way to it (inbox) and, while a call or event runs, the
\* messages it hands to signaling.send (out).
\*
\* A PeerConn c: the fields of the source, with the RTCPeerConnection as
\* signalingState, remoteDescription (set or not), the sdp of the remote
\* offer it holds, and ops, its chain of operations that have been called
\* and not yet settled, each with the code that awaits it (k).
newConn(M, peerId) ==
  [polite |-> localeCompare(M.localPeerId, peerId, M.locale) < 0,
   makingOffer |-> FALSE,
   ignoreOffer |-> FALSE,
   pendingIce |-> <<>>,
   needsNegotiation |-> FALSE,
   micAudioSender |-> NoTrack,
   screenAudioSender |-> NoTrack,
   screenVideoSender |-> NoTrack,
   dc |-> FALSE,
   signalingState |-> "stable",
   localDescription |-> FALSE,
   remoteDescription |-> FALSE,
   remoteOffer |-> NoSdp,
   remoteAnswer |-> NoSdp,
   ops |-> <<>>,
   born |-> M.clock,
   offers |-> 0,
   changes |-> 0,
   offered |-> 0,
   gathered |-> 0,
   arrived |-> <<>>,
   applied |-> <<>>]

enqueue_all(M, r, o) ==
  [M EXCEPT !.peers = [x \in DOMAIN @ |-> [@[x] EXCEPT !.ops = Append(@, o)]]]

\* A call on conn.pc of the link to r: it joins the operations of that
\* RTCPeerConnection.
enqueue(M, r, o) == [M EXCEPT !.peers[r].ops = Append(@, o)]
signalingSend(M, msg) == [M EXCEPT !.out = Append(@, msg)]

\* negotiate(peerId), up to its first await
negotiate(M, r) ==
  IF r \notin DOMAIN M.peers THEN M
  ELSE IF M.peers[r].makingOffer THEN M
  ELSE IF M.peers[r].signalingState # "stable"
    THEN [M EXCEPT !.peers[r].needsNegotiation = TRUE]
  ELSE enqueue([M EXCEPT !.peers[r].makingOffer = TRUE], r,
               [op |-> "createOffer", k |-> "negotiate"])

\* syncMicAudioSender(conn): the host after it, and what it returns
syncMicAudioSender(M, r) ==
  LET c == M.peers[r] IN
  IF M.localAudioTrack = NoTrack
    THEN IF c.micAudioSender # NoTrack
           THEN [host |-> [M EXCEPT !.peers[r].micAudioSender = NoTrack],
                 needsOffer |-> TRUE]
           ELSE [host |-> M, needsOffer |-> FALSE]
  ELSE IF c.micAudioSender # NoTrack
    THEN [host |-> [M EXCEPT !.peers[r].micAudioSender = M.localAudioTrack],
          needsOffer |-> FALSE]
  ELSE [host |-> [M EXCEPT !.peers[r].micAudioSender = M.localAudioTrack],
        needsOffer |-> TRUE]

syncScreenAudioSender_keep(M, r) == [host |-> M, needsOffer |-> FALSE]

\* syncScreenAudioSender(conn)
syncScreenAudioSender(M, r) ==
  LET c == M.peers[r] IN
  IF M.localScreenAudioTrack = NoTrack
    THEN IF c.screenAudioSender # NoTrack
           THEN [host |-> [M EXCEPT !.peers[r].screenAudioSender = NoTrack],
                 needsOffer |-> TRUE]
           ELSE [host |-> M, needsOffer |-> FALSE]
  ELSE IF c.screenAudioSender # NoTrack
    THEN [host |-> [M EXCEPT !.peers[r].screenAudioSender = M.localScreenAudioTrack],
          needsOffer |-> FALSE]
  ELSE [host |-> [M EXCEPT !.peers[r].screenAudioSender = M.localScreenAudioTrack],
        needsOffer |-> TRUE]

\* syncScreenVideoSender(conn)
syncScreenVideoSender(M, r) ==
  LET c == M.peers[r] IN
  IF M.localScreenTrack = NoTrack
    THEN IF c.screenVideoSender # NoTrack
           THEN [host |-> [M EXCEPT !.peers[r].screenVideoSender = NoTrack],
                 needsOffer |-> TRUE]
           ELSE [host |-> M, needsOffer |-> FALSE]
  ELSE IF c.screenVideoSender # NoTrack
    THEN [host |-> [M EXCEPT !.peers[r].screenVideoSender = M.localScreenTrack],
          needsOffer |-> FALSE]
  ELSE [host |-> [M EXCEPT !.peers[r].screenVideoSender = M.localScreenTrack],
        needsOffer |-> TRUE]

\* ensurePeer: the three sync calls after this.peers.set, one after the
\* other (each intermediate host is bound as a value and computed once)
syncSenders(M, r) ==
  CHOOSE N \in {syncScreenVideoSender(audio, r).host :
                  audio \in {syncScreenAudioSender(mic, r).host :
                               mic \in {syncMicAudioSender(M0, r).host : M0 \in {M}}}} : TRUE

ensurePeer_replace(M, r) ==
  LET M1 == [M EXCEPT !.peers = (r :> newConn(M, r)) @@ @, !.clock = @ + 1]
      M2 == syncSenders(M1, r)
      shouldInitiate == localeCompare(M.localPeerId, r, M.locale) < 0
  IN IF shouldInitiate
       THEN negotiate([M2 EXCEPT !.peers[r].dc = TRUE], r)
       ELSE M2

\* ensurePeer(peer)
ensurePeer(M, r) ==
  IF r \in DOMAIN M.peers THEN M
  ELSE LET M1 == [M EXCEPT !.peers = @ @@ (r :> newConn(M, r)), !.clock = @ + 1]
           M2 == syncSenders(M1, r)
           shouldInitiate == localeCompare(M.localPeerId, r, M.locale) < 0
       IN IF shouldInitiate
            THEN negotiate([M2 EXCEPT !.peers[r].dc = TRUE], r)
            ELSE M2

closeAll_keepLinks(M) == M

\* closeAll()
closeAll(M) == [M EXCEPT !.peers = <<>>]

\* setLocalAudioTrack(track): one link after the other
RECURSIVE syncAll(_, _)
syncAll(M, todo) ==
  IF todo = {} THEN M
  ELSE LET r == CHOOSE x \in todo : TRUE
           res == syncMicAudioSender(M, r)
       IN syncAll(IF res.needsOffer
                    THEN negotiate([res.host EXCEPT !.peers[r].changes = @ + 1], r)
                    ELSE res.host,
                  todo \ {r})

setLocalAudioTrack(M, track) ==
  syncAll([M EXCEPT !.localAudioTrack = track], DOMAIN M.peers)

\* The loop of setLocalScreenTrack and of setLocalScreenMedia
RECURSIVE syncScreen(_, _)
syncScreen(M, todo) ==
  IF todo = {} THEN M
  ELSE LET r == CHOOSE x \in todo : TRUE
           video == syncScreenVideoSender(M, r)
           audio == syncScreenAudioSender(video.host, r)
       IN syncScreen(IF video.needsOffer \/ audio.needsOffer
                       THEN negotiate([audio.host EXCEPT !.peers[r].changes = @ + 1], r)
                       ELSE audio.host,
                     todo \ {r})

\* setLocalScreenTrack(track)
setLocalScreenTrack(M, track) ==
  syncScreen([M EXCEPT !.localScreenTrack = track, !.localScreenAudioTrack = NoTrack],
             DOMAIN M.peers)

\* setLocalScreenMedia(stream): stream gives its first video track and its
\* first audio track, each possibly missing; null has neither.
setLocalScreenMedia(M, stream) ==
  syncScreen([M EXCEPT !.localScreenTrack = stream.video,
                       !.localScreenAudioTrack = stream.audio],
             DOMAIN M.peers)

\* pc.onsignalingstatechange
onsignalingstatechange(M, r) ==
  IF M.peers[r].signalingState = "stable" /\ M.peers[r].needsNegotiation
    THEN negotiate([M EXCEPT !.peers[r].needsNegotiation = FALSE], r)
    ELSE M

\* The offer handler from "Flush any queued ICE" on: the i-th queued
\* candidate is handed to addIceCandidate and awaited; after the last one
\* the queue is emptied and createAnswer is called.
flush(M, r, i) ==
  IF i <= Len(M.peers[r].pendingIce)
    THEN enqueue(M, r, [op |-> "addIceCandidate", k |-> "flush", i |-> i,
                        candidate |-> M.peers[r].pendingIce[i]])
    ELSE enqueue([M EXCEPT !.peers[r].pendingIce = <<>>], r,
                 [op |-> "createAnswer", k |-> "offer"])

finally_keep(M, r) == M

\* negotiate: finally { conn.makingOffer = false; }
finally(M, r) == [M EXCEPT !.peers[r].makingOffer = FALSE]

\* The operation at the head of the chain of link r is one of negotiate and
\* is rejected in the signaling state of the link.
negotiateFails(M, r, lax) ==
  LET o == Head(M.peers[r].ops)
      st == M.peers[r].signalingState
  IN /\ o.k = "negotiate"
     /\ IF o.op = "createOffer"
          THEN st \notin {"stable", "have-local-offer"} /\ ~lax
          ELSE st \notin {"stable", "have-local-offer"}

\* The operation at the head of the chain of link r settles: the browser
\* applies it or rejects it (InvalidStateError in the wrong signaling
\* state), fires signalingstatechange, and the code awaiting it resumes and
\* runs to its next await.  Outside stable and have-local-offer createOffer
\* rejects in a browser that follows the WebRTC specification, and resolves
\* in one that checks the state only in setLocalDescription (lax).  The
\* offer that createOffer makes describes the senders the connection has at
\* that moment: mic, and change, the number of adds and removes before it.
settle(M, r, lax) ==
  LET c == M.peers[r]
      o == Head(c.ops)
      M0 == [M EXCEPT !.peers[r].ops = Tail(@)]
      st == c.signalingState
  IN
  IF o.op = "createOffer" THEN
    \* negotiate: const offer = await pc.createOffer()
    IF st \in {"stable", "have-local-offer"} \/ lax
      THEN enqueue(M0, r,
                   [op |-> "setLocalDescription", type |-> "offer", k |-> "negotiate",
                    sdp |-> [type |-> "offer", by |-> M.localPeerId,
                             n |-> c.offers + 1, mic |-> c.micAudioSender,
                             change |-> c.changes]])
      ELSE finally(M0, r)
  ELSE IF o.op = "setLocalDescription" /\ o.type = "offer" THEN
    \* negotiate: await pc.setLocalDescription(offer); signaling.send; finally
    IF st \in {"stable", "have-local-offer"}
      THEN LET M1 == [M0 EXCEPT !.peers[r].signalingState = "have-local-offer",
                                !.peers[r].localDescription = TRUE,
                                !.peers[r].offers = @ + 1,
                                !.peers[r].offered = o.sdp.change]
               M2 == IF st # "have-local-offer" THEN onsignalingstatechange(M1, r) ELSE M1
           IN finally(signalingSend(M2, [type |-> "offer", to |-> r, sdp |-> o.sdp]), r)
      ELSE finally(M0, r)
  ELSE IF o.op = "setLocalDescription" /\ o.type = "rollback" THEN
    \* offer handler: the first promise of Promise.all; when it rejects the
    \* handler returns, and nothing awaits the setRemoteDescription after it
    IF st \in {"have-local-offer", "have-remote-offer"}
      THEN onsignalingstatechange([M0 EXCEPT !.peers[r].signalingState = "stable"], r)
      ELSE [M0 EXCEPT !.peers[r].ops[1].k = "none"]
  ELSE IF o.op = "setRemoteDescription" /\ o.type = "offer" THEN
    IF st \in {"stable", "have-remote-offer"}
      THEN LET M1 == [M0 EXCEPT !.peers[r].signalingState = "have-remote-offer",
                                !.peers[r].remoteDescription = TRUE,
                                !.peers[r].remoteOffer = o.sdp]
               M2 == IF st # "have-remote-offer" THEN onsignalingstatechange(M1, r) ELSE M1
           IN IF o.k = "offer" THEN flush(M2, r, 1) ELSE M2
      ELSE M0
  ELSE IF o.op = "addIceCandidate" THEN
    LET M1 == IF c.remoteDescription
                THEN [M0 EXCEPT !.peers[r].applied = Append(@, o.candidate)]
                ELSE M0
    IN IF o.k = "flush" THEN flush(M1, r, o.i + 1) ELSE M1
  ELSE IF o.op = "createAnswer" THEN
    IF st = "have-remote-offer"
      THEN enqueue(M0, r, [op |-> "setLocalDescription", type |-> "answer", k |-> "offer",
                           sdp |-> [type |-> "answer", answers |-> c.remoteOffer]])
      ELSE M0
  ELSE IF o.op = "setLocalDescription" /\ o.type = "answer" THEN
    IF st = "have-remote-offer"
      THEN signalingSend(
             onsignalingstatechange([M0 EXCEPT !.peers[r].signalingState = "stable",
                                               !.peers[r].localDescription = TRUE], r),
             [type |-> "answer", to |-> r, sdp |-> o.sdp])
      ELSE M0
  ELSE
    \* answer handler: await conn.pc.setRemoteDescription({type: "answer", ..})
    IF st = "have-local-offer"
      THEN onsignalingstatechange([M0 EXCEPT !.peers[r].signalingState = "stable",
                                             !.peers[r].remoteDescription = TRUE,
                                             !.peers[r].remoteAnswer = o.sdp.answers], r)
      ELSE M0

peerLeft_keep(M, id) == M

\* The peer-left handler: dc.close(), pc.close(), peers.delete(peerId).  The
\* promises of a closed RTCPeerConnection stay pending, so the operations
\* of the link go with it and the code awaiting them never resumes.
peerLeft(M, id) == [M EXCEPT !.peers = [x \in DOMAIN @ \ {id} |-> @[x]]]

offerCollision_never(c) == FALSE

\* const offerCollision = conn.makingOffer || pc.signalingState !== "stable"
offerCollision(c) == c.makingOffer \/ c.signalingState # "stable"

shouldIgnore_never(c) == FALSE

\* conn.ignoreOffer = !conn.polite && offerCollision
shouldIgnore(c) == ~c.polite /\ offerCollision(c)

RECURSIVE ensurePeers(_, _)
ensurePeers(M, list) ==
  IF list = <<>> THEN M ELSE ensurePeers(ensurePeer(M, Head(list)), Tail(list))

\* handleSignaling(msg), each handler up to its first await
handleSignaling(M, msg) ==
  IF msg.type = "peers" THEN ensurePeers(M, msg.peers)
  ELSE IF msg.type = "peer-joined" THEN ensurePeer(M, msg.peer)
  ELSE IF msg.type = "peer-left" THEN peerLeft(M, msg.peerId)
  ELSE IF msg.type = "offer" THEN
    LET r == msg.from
        M1 == ensurePeer(M, r)
        c == M1.peers[r]
        ignoreOffer == shouldIgnore(c)
        M2 == [M1 EXCEPT !.peers[r].ignoreOffer = ignoreOffer]
        remote == [op |-> "setRemoteDescription", type |-> "offer", k |-> "offer",
                   sdp |-> msg.sdp]
    IN IF ignoreOffer THEN M2
       ELSE IF offerCollision(c) /\ c.polite
         THEN enqueue(enqueue(M2, r, [op |-> "setLocalDescription", type |-> "rollback",
                                      k |-> "offer"]),
                      r, remote)
       ELSE enqueue(M2, r, remote)
  ELSE IF msg.type = "answer" THEN
    IF msg.from \notin DOMAIN M.peers THEN M
    ELSE enqueue(M, msg.from, [op |-> "setRemoteDescription", type |-> "answer",
                               k |-> "none", sdp |-> msg.sdp])
  ELSE IF msg.type = "ice" THEN
    IF msg.from \notin DOMAIN M.peers THEN M
    ELSE LET r == msg.from
             M1 == [M EXCEPT !.peers[r].arrived = Append(@, msg.candidate)]
         IN IF M1.peers[r].ignoreOffer THEN M1
            ELSE IF ~M1.peers[r].remoteDescription
              THEN [M1 EXCEPT !.peers[r].pendingIce = Append(@, msg.candidate)]
            ELSE enqueue(M1, r, [op |-> "addIceCandidate", k |-> "none",
                                 candidate |-> msg.candidate])
  ELSE M

\* ---- the desktops of one voice room
Hosts == {1, 2}
Tracks == {1, 2}

\* The MediaStreams of a screen capture
Streams == [video : Tracks \cup {NoTrack}, audio : Tracks \cup {NoTrack}]

MaxInputs == 2

\* The peerId the server hands to host h on its first connection.
hostId(h) == [i \in 1..IdLen |-> IF i = IdLen + 1 - h THEN "b" ELSE "a"]

\* A desktop before it joins a voice channel: meshRef.current is null.
newHost(id, loc) ==
  [localPeerId |-> id, locale |-> loc, mesh |-> FALSE, peers |-> <<>>,
   localAudioTrack |-> NoTrack, localScreenTrack |-> NoTrack,
   localScreenAudioTrack |-> NoTrack, inbox |-> <<>>, out |-> <<>>,
   clock |-> 0, epoch |-> 0, inputs |-> 0, triggers |-> 0,
   midDrop |-> FALSE, event |-> "none"]

InitMesh == mesh = [h \in Hosts |-> newHost(hostId(h), "en")]

\* new PeerMesh({signaling, roomId, localPeerId, handlers})
newPeerMesh(M) ==
  [M EXCEPT !.mesh = TRUE, !.peers = <<>>, !.localAudioTrack = NoTrack,
            !.localScreenTrack = NoTrack, !.localScreenAudioTrack = NoTrack,
            !.epoch = M.clock]

\* cleanupVoiceState(): meshRef.current?.closeAll(); meshRef.current = null
cleanupVoiceState(M) == [closeAll(M) EXCEPT !.mesh = FALSE]

\* The server relays offer, answer and ice to the peer named in "to" when
\* it is in the room of the sender, with "from" set to the sender.
RECURSIVE route(_, _, _)
route(net, from, out) ==
  IF out = <<>> THEN net
  ELSE LET msg == Head(out)
           fwd == [x \in DOMAIN msg \ {"to"} |-> msg[x]] @@ [from |-> from]
           next == [g \in Hosts |->
                      IF net[g].mesh /\ net[g].localPeerId = msg.to
                        THEN [net[g] EXCEPT !.inbox = Append(@, fwd)]
                        ELSE net[g]]
       IN route(next, from, Tail(out))

\* The peers message to a joiner: the peers already in the room.
RECURSIVE peerList(_, _)
peerList(net, hosts) ==
  IF hosts = {} THEN <<>>
  ELSE LET g == CHOOSE x \in hosts : \A y \in hosts : x <= y
       IN <<net[g].localPeerId>> \o peerList(net, hosts \ {g})

\* Publishing, gathering a candidate and losing the control connection are
\* the inputs of the environment; inputs(net) counts those made so far.
RECURSIVE sumInputs(_, _)
sumInputs(net, hosts) ==
  IF hosts = {} THEN 0
  ELSE LET g == CHOOSE x \in hosts : TRUE
       IN net[g].inputs + sumInputs(net, hosts \ {g})

inputs(net) == sumInputs(net, Hosts)

\* Host h ends a step in M: what it handed to signaling.send goes through
\* the server.
Step(h, M, e) ==
  mesh' = route([mesh EXCEPT ![h] = [M EXCEPT !.event = e]], M.localPeerId, M.out)

\* Host M as a call or event finds it: out is what it will hand to
\* signaling.send before it returns.
begin(M) == [M EXCEPT !.out = <<>>]

\* ------------------------------------------------------------------ actions
\* One callback runs to completion: the new server state, the batch it sent.
Apply(S, p, msg) ==
  /\ handled < MaxEvents
  /\ handled' = handled + 1
  /\ clients' = S.clients
  /\ rooms' = S.rooms
  /\ sent' = S.out
  /\ last' = [from |-> p, msg |-> msg]

Receive(p, msg) == Apply(handle(Cur, p, msg), p, msg) /\ UNCHANGED used

InitServer ==
  /\ clients = <<>>
  /\ used = {}
  /\ rooms = <<>>
  /\ sent = <<>>
  /\ last = [from |-> 0, msg |-> [type |-> "init"]]
  /\ handled = 0
  /\ inbox = [p \in Peers |-> <<>>]
  /\ trace = <<>>

Init == InitServer /\ InitSignaling /\ InitMesh

\* Fresh peerIds are handed out in increasing order (they are opaque tokens).
ConnectStep ==
  \E p \in Peers :
    /\ p \notin used
    /\ \A q \in Peers : q < p => q \in used
    /\ Apply(connection(Cur, p), p, [type |-> "connection"])
    /\ used' = used \cup {p}

JoinStep == \E p \in DOMAIN clients, msg \in JoinMsgs : Receive(p, msg)
WatchStep == \E p \in DOMAIN clients, msg \in WatchMsgs : Receive(p, msg)
UnwatchStep == \E p \in DOMAIN clients, msg \in UnwatchMsgs : Receive(p, msg)
StateStep == \E p \in DOMAIN clients, msg \in StateMsgs : Receive(p, msg)
LeaveStep == \E p \in DOMAIN clients, msg \in LeaveMsgs : Receive(p, msg)
RelayStep == \E p \in DOMAIN clients, msg \in RelayMsgs : Receive(p, msg)
TextStep == \E p \in DOMAIN clients, msg \in TextMsgs : Receive(p, msg)
VadStep == \E p \in DOMAIN clients, msg \in VadMsgs : Receive(p, msg)

CloseStep ==
  \E p \in DOMAIN clients :
    Apply(close(Cur, p), p, [type |-> "close"]) /\ UNCHANGED used

Connect == ConnectStep /\ UNCHANGED <<hist, desktop>>
Join == JoinStep /\ UNCHANGED <<hist, desktop>>
Watch == WatchStep /\ UNCHANGED <<hist, desktop>>
Unwatch == UnwatchStep /\ UNCHANGED <<hist, desktop>>
State == StateStep /\ UNCHANGED <<hist, desktop>>
Leave == LeaveStep /\ UNCHANGED <<hist, desktop>>
Relay == RelayStep /\ UNCHANGED <<hist, desktop>>
Text == TextStep /\ UNCHANGED <<hist, desktop>>
Vad == VadStep /\ UNCHANGED <<hist, desktop>>
Close == CloseStep /\ UNCHANGED <<hist, desktop>>

Next ==
  \/ Connect
  \/ Join
  \/ Watch
  \/ Unwatch
  \/ State
  \/ Leave
  \/ Relay
  \/ Text
  \/ Vad
  \/ Close

Spec == Init /\ [][Next]_vars

\* ------------------------------------------------- joins with their history
\* Connections and joins only, every socket's messages and the events kept.
msgsOf(out) == [i \in 1..Len(out) |-> out[i].msg]

Record ==
  /\ inbox' = [q \in Peers |-> inbox[q] \o msgsOf(To(sent', q))]
  /\ trace' = Append(trace, last')
  /\ UNCHANGED desktop

ScnConnect == ConnectStep /\ Record
ScnJoin == JoinStep /\ Record

NextScenario ==
  \/ ScnConnect
  \/ ScnJoin

SpecScenario == Init /\ [][NextScenario]_vars

\* Connections, joins and state messages, with the events kept.
ScnState == StateStep /\ Record

NextStates ==
  \/ ScnConnect
  \/ ScnJoin
  \/ ScnState

SpecStates == Init /\ [][NextStates]_vars

\* Connections, joins, leaves and disconnects, with what every socket has
\* been sent kept (the sockets deliver in order).
Keep ==
  /\ inbox' = [q \in Peers |-> inbox[q] \o msgsOf(To(sent', q))]
  /\ UNCHANGED <<trace, desktop>>

ViewConnect == ConnectStep /\ Keep
ViewJoin == JoinStep /\ Keep
ViewLeave == LeaveStep /\ Keep
ViewClose == CloseStep /\ Keep

NextViews ==
  \/ ViewConnect
  \/ ViewJoin
  \/ ViewLeave
  \/ ViewClose

SpecViews == Init /\ [][NextViews]_vars

\* ------------------------------------------------ the socket, as data
\* Connections, closes, and messages as the data that arrives: malformed
\* data and well-formed messages that claim somebody's identity.
MessageStep ==
  \E p \in DOMAIN clients, raw \in RawData :
    Apply(message(Cur, p, raw), p, [type |-> "message", data |-> raw])
    /\ UNCHANGED used

WireConnect == ConnectStep /\ UNCHANGED <<hist, desktop>>
WireMessage == MessageStep /\ UNCHANGED <<hist, desktop>>
WireClose == CloseStep /\ UNCHANGED <<hist, desktop>>

NextWire ==
  \/ WireConnect
  \/ WireMessage
  \/ WireClose

SpecWire == Init /\ [][NextWire]_vars

\* ------------------------------------------- the desktop's connection
\* The caller's connect() and disconnect(), the events of the sockets and
\* the timer.  The network drops a socket that nobody closed at most
\* MaxDrops times, the caller calls at most MaxCalls times.
Did(K, e) == signaling' = [K EXCEPT !.event = e]

CallConnect ==
  /\ signaling.calls < MaxCalls
  /\ Did(connect([signaling EXCEPT !.calls = @ + 1, !.lastCall = "connect"]),
         [type |-> "connect"])

CallDisconnect ==
  /\ signaling.calls < MaxCalls
  /\ Did(disconnect([signaling EXCEPT !.calls = @ + 1, !.lastCall = "disconnect"]),
         [type |-> "disconnect"])

SocketOpens ==
  \E s \in DOMAIN signaling.sockets :
    /\ signaling.sockets[s] = "CONNECTING"
    /\ Did(onopen([signaling EXCEPT !.sockets[s] = "OPEN"]),
           [type |-> "open", socket |-> s])

\* The close event of a socket the client closed itself.
SocketCloses ==
  \E s \in DOMAIN signaling.sockets, j \in Jitters :
    /\ signaling.sockets[s] = "CLOSING"
    /\ Did(onclose([signaling EXCEPT !.sockets[s] = "CLOSED"], j),
           [type |-> "close", socket |-> s, unexpected |-> FALSE])

\* The close event of a socket that failed to connect or lost its connection.
SocketDrops ==
  \E s \in DOMAIN signaling.sockets, j \in Jitters :
    /\ signaling.sockets[s] \in {"CONNECTING", "OPEN"}
    /\ signaling.drops < MaxDrops
    /\ Did(onclose([signaling EXCEPT !.sockets[s] = "CLOSED", !.drops = @ + 1], j),
           [type |-> "close", socket |-> s, unexpected |-> TRUE])

TimerFires ==
  \E t \in signaling.timers :
    Did(reconnectCallback([signaling EXCEPT !.timers = @ \ {t}]),
        [type |-> "timer", id |-> t.id])

NextSignaling ==
  \/ CallConnect /\ UNCHANGED <<server, hist, mesh>>
  \/ CallDisconnect /\ UNCHANGED <<server, hist, mesh>>
  \/ SocketOpens /\ UNCHANGED <<server, hist, mesh>>
  \/ SocketCloses /\ UNCHANGED <<server, hist, mesh>>
  \/ SocketDrops /\ UNCHANGED <<server, hist, mesh>>
  \/ TimerFires /\ UNCHANGED <<server, hist, mesh>>

SpecSignaling == Init /\ [][NextSignaling]_vars

\* The browser delivers every event it has queued and fires every timer
\* that stays set.
FairSignaling ==
  /\ WF_vars(SocketOpens /\ UNCHANGED <<server, hist, mesh>>)
  /\ WF_vars(SocketCloses /\ UNCHANGED <<server, hist, mesh>>)
  /\ WF_vars(TimerFires /\ UNCHANGED <<server, hist, mesh>>)

SpecSignalingFair == SpecSignaling /\ FairSignaling

\* ---- the voice room of the desktops
\* joinVoiceChannel on host h: a new PeerMesh, and the join handled by the
\* server (peers to h, peer-joined to the others).
MeshJoin(h) ==
  /\ ~mesh[h].mesh
  /\ LET M == newPeerMesh(mesh[h])
         others == {g \in Hosts \ {h} : mesh[g].mesh}
         list == peerList(mesh, others)
     IN mesh' = [g \in Hosts |->
                   IF g = h
                     THEN [M EXCEPT !.inbox = <<[type |-> "peers", peers |-> list]>>,
                                    !.out = <<>>, !.event = "join"]
                   ELSE IF g \in others
                     THEN [mesh[g] EXCEPT !.inbox =
                             Append(@, [type |-> "peer-joined", peer |-> M.localPeerId])]
                   ELSE mesh[g]]

\* msg is the peer-left of a peer whose link is making an offer or has an
\* operation of a handler pending.
leavesBusy(M, msg) ==
  /\ msg.type = "peer-left"
  /\ msg.peerId \in DOMAIN M.peers
  /\ M.peers[msg.peerId].makingOffer \/ M.peers[msg.peerId].ops # <<>>

\* The socket of host h delivers the next message: handleServerMessage
\* passes it to meshRef.current?.handleSignaling.
MeshDeliver(h) ==
  /\ mesh[h].mesh
  /\ mesh[h].inbox # <<>>
  /\ Step(h, handleSignaling(begin([mesh[h] EXCEPT !.inbox = Tail(@)]), Head(mesh[h].inbox)),
          IF leavesBusy(mesh[h], Head(mesh[h].inbox)) THEN "left-busy" ELSE "deliver")

\* The pending operation at the head of the chain of one link settles.
MeshSettle(h, r) ==
  /\ r \in DOMAIN mesh[h].peers
  /\ mesh[h].peers[r].ops # <<>>
  /\ \E lax \in BOOLEAN :
       Step(h, settle(begin(mesh[h]), r, lax),
            IF negotiateFails(mesh[h], r, lax) THEN "offer-failed" ELSE "settle")

\* The user of host h publishes a microphone track, or none.
MeshPublish(h, track) ==
  /\ mesh[h].mesh
  /\ inputs(mesh) < MaxInputs
  /\ Step(h, setLocalAudioTrack(begin([mesh[h] EXCEPT !.inputs = @ + 1, !.triggers = @ + 1]), track), "publish")

\* The user of host h starts or stops sharing the screen.
MeshScreenMedia(h, stream) ==
  /\ mesh[h].mesh
  /\ inputs(mesh) < MaxInputs
  /\ Step(h, setLocalScreenMedia(begin([mesh[h] EXCEPT !.inputs = @ + 1, !.triggers = @ + 1]), stream), "screen")

MeshScreenTrack(h, track) ==
  /\ mesh[h].mesh
  /\ inputs(mesh) < MaxInputs
  /\ Step(h, setLocalScreenTrack(begin([mesh[h] EXCEPT !.inputs = @ + 1, !.triggers = @ + 1]), track), "screen")

\* pc.onicecandidate on a link that has a local description; the candidate
\* is numbered and carries the signaling state it was gathered in.
MeshIce(h, r) ==
  /\ r \in DOMAIN mesh[h].peers
  /\ mesh[h].peers[r].localDescription
  /\ inputs(mesh) < MaxInputs
  /\ LET n == mesh[h].peers[r].gathered + 1
         M == begin([mesh[h] EXCEPT !.peers[r].gathered = n, !.inputs = @ + 1])
     IN Step(h, signalingSend(M, [type |-> "ice", to |-> r,
                                  candidate |-> [by |-> M.localPeerId, n |-> n,
                                                 state |-> M.peers[r].signalingState]]),
             "ice")

\* The peerIds that signaling message msg names.
names(msg) ==
  IF msg.type = "peers" THEN {msg.peers[i] : i \in 1..Len(msg.peers)}
  ELSE IF msg.type = "peer-joined" THEN {msg.peer}
  ELSE IF msg.type = "peer-left" THEN {msg.peerId}
  ELSE {msg.from}

\* The control connection of host h drops while it is in the voice room:
\* onClose runs disconnectVoice, the server tells the others peer-left, and
\* the reconnected socket is welcomed under a new peerId (a randomUUID of the
\* server: no host, link or message in flight names it).
MeshDrop(h, id) ==
  /\ mesh[h].mesh
  /\ inputs(mesh) < MaxInputs
  /\ id \in Ids
  /\ \A g \in Hosts : id # mesh[g].localPeerId
  /\ \A g \in Hosts : id \notin DOMAIN mesh[g].peers
  /\ \A g \in Hosts : \A i \in 1..Len(mesh[g].inbox) : id \notin names(mesh[g].inbox[i])
  /\ LET M == mesh[h]
         mid == \E r \in DOMAIN M.peers :
                  /\ M.peers[r].signalingState = "have-local-offer"
                  /\ ~M.peers[r].makingOffer
     IN mesh' = [g \in Hosts |->
                   IF g = h
                     THEN [cleanupVoiceState(M) EXCEPT !.localPeerId = id, !.inbox = <<>>,
                             !.out = <<>>,
                             !.inputs = @ + 1, !.triggers = @ + 1, !.midDrop = mid, !.event = "drop"]
                   ELSE IF mesh[g].mesh
                     THEN [mesh[g] EXCEPT !.inbox =
                             Append(@, [type |-> "peer-left", peerId |-> M.localPeerId])]
                   ELSE mesh[g]]

NextMesh ==
  \/ \E h \in Hosts : MeshJoin(h) /\ UNCHANGED <<server, hist, signaling>>
  \/ \E h \in Hosts : MeshDeliver(h) /\ UNCHANGED <<server, hist, signaling>>
  \/ \E h \in Hosts : \E r \in Ids : MeshSettle(h, r) /\ UNCHANGED <<server, hist, signaling>>
  \/ \E h \in Hosts : \E t \in Tracks \cup {NoTrack} :
       MeshPublish(h, t) /\ UNCHANGED <<server, hist, signaling>>
  \/ \E h \in Hosts : \E r \in Ids : MeshIce(h, r) /\ UNCHANGED <<server, hist, signaling>>
  \/ \E h \in Hosts : \E id \in Ids : MeshDrop(h, id) /\ UNCHANGED <<server, hist, signaling>>

SpecMesh == Init /\ [][NextMesh]_vars

\* The browser settles every operation it was given and the socket
\* delivers every message it received.
MeshProgress ==
  \/ \E h \in Hosts : MeshDeliver(h) /\ UNCHANGED <<server, hist, signaling>>
  \/ \E h \in Hosts : \E r \in Ids : MeshSettle(h, r) /\ UNCHANGED <<server, hist, signaling>>

FairMesh == WF_vars(MeshProgress)

SpecMeshFair == SpecMesh /\ FairMesh

\* The desktops join, publish and negotiate, with no candidate traffic and
\* no loss of the control connection.
NextGlare ==
  \/ \E h \in Hosts : MeshJoin(h) /\ UNCHANGED <<server, hist, signaling>>
  \/ \E h \in Hosts : \E t \in Tracks \cup {NoTrack} :
       MeshPublish(h, t) /\ UNCHANGED <<server, hist, signaling>>
  \/ MeshProgress

SpecGlare == Init /\ [][NextGlare]_vars /\ FairMesh

\* The desktops join and negotiate, lose the control connection and rejoin,
\* with no change of the published media and no candidate traffic.
NextRejoin ==
  \/ \E h \in Hosts : MeshJoin(h) /\ UNCHANGED <<server, hist, signaling>>
  \/ \E h \in Hosts : \E id \in Ids : MeshDrop(h, id) /\ UNCHANGED <<server, hist, signaling>>
  \/ MeshProgress

SpecRejoin == Init /\ [][NextRejoin]_vars

\* The desktops join, publish the microphone and the screen, lose the
\* control connection and rejoin; their messages are delivered.
NextSlots ==
  \/ \E h \in Hosts : MeshJoin(h) /\ UNCHANGED <<server, hist, signaling>>
  \/ \E h \in Hosts : MeshDeliver(h) /\ UNCHANGED <<server, hist, signaling>>
  \/ \E h \in Hosts : \E t \in Tracks \cup {NoTrack} :
       MeshPublish(h, t) /\ UNCHANGED <<server, hist, signaling>>
  \/ \E h \in Hosts : \E stream \in Streams :
       MeshScreenMedia(h, stream) /\ UNCHANGED <<server, hist, signaling>>
  \/ \E h \in Hosts : \E t \in Tracks \cup {NoTrack} :
       MeshScreenTrack(h, t) /\ UNCHANGED <<server, hist, signaling>>
  \/ \E h \in Hosts : \E id \in Ids : MeshDrop(h, id) /\ UNCHANGED <<server, hist, signaling>>

SpecSlots == Init /\ [][NextSlots]_vars

\* Desktops with any two distinct peerIds, each on a host with its own
\* default locale, join the room and create their links.
InitPolite ==
  /\ InitServer
  /\ InitSignaling
  /\ \E ids \in [Hosts -> Ids] : \E locs \in [Hosts -> Locales] :
       /\ \A g, h \in Hosts : g # h => ids[g] # ids[h]
       /\ mesh = [h \in Hosts |-> newHost(ids[h], locs[h])]

NextPolite ==
  \/ \E h \in Hosts : MeshJoin(h) /\ UNCHANGED <<server, hist, signaling>>
  \/ \E h \in Hosts : MeshDeliver(h) /\ UNCHANGED <<server, hist, signaling>>

SpecPolite == InitPolite /\ [][NextPolite]_vars

\* The same desktops join and negotiate their initial exchange.
NextLocales ==
  \/ \E h \in Hosts : MeshJoin(h) /\ UNCHANGED <<server, hist, signaling>>
  \/ MeshProgress

SpecLocales == InitPolite /\ [][NextLocales]_vars

\* ------------------------------------------------------------ properties
\* The active participants and the watchers of room r in server state S.
ActiveOf(S, r) == IF r \in DOMAIN S.rooms THEN Range(S.rooms[r].clients) ELSE {}
WatchersOf(S, r) == IF r \in DOMAIN S.rooms THEN Range(S.rooms[r].watchers) ELSE {}
Active(r) == ActiveOf(Cur, r)
Watchers(r) == WatchersOf(Cur, r)

\* How many messages of a batch satisfy Test.
Count(out, Test(_)) == Len(SelectSeq(out, Test))
Recipients(out) == {out[i].to : i \in 1..Len(out)}

\* The server state and the batch a step ends with.
Post == [clients |-> clients', rooms |-> rooms', out |-> sent']

\* C1: at every message boundary a room is in the registry iff it has an
\* active participant or a watcher: after every callback no room of the
\* registry is empty, and a callback removes a room only if nobody but the
\* connection it ran for was active in or watching it (a room absent from the
\* registry has no membership maps at all; the registry starts empty).
C1_RoomPresentIffOccupied ==
  [][/\ \A r \in DOMAIN rooms' : ActiveOf(Post, r) \cup WatchersOf(Post, r) # {}
     /\ \A r \in DOMAIN rooms \ DOMAIN rooms' :
          Active(r) \cup Watchers(r) \subseteq {last'.from}]_vars

\* A leave has just emptied the active map of a room that a watcher keeps alive.
C1_Witness ==
  /\ last.msg.type = "leave"
  /\ \E r \in DOMAIN rooms :
       /\ Active(r) = {}
       /\ Watchers(r) \ {last.from} # {}
       /\ \E i \in 1..Len(sent) :
            sent[i].msg = [type |-> "room-peer-left", roomId |-> r, peerId |-> last.from]

\* C2: a peerId is in the active map of at most one room, and a client's
\* roomId is r exactly when the client is in room r's active map (null exactly
\* when it is in none); only open connections are in an active map.
C2_ActiveInOneRoom ==
  /\ \A p \in Peers : Cardinality({r \in RoomIds : p \in Active(r)}) <= 1
  /\ \A r \in RoomIds : Active(r) \subseteq DOMAIN clients
  /\ \A p \in DOMAIN clients :
       /\ \A r \in RoomIds : clients[p].roomId = r <=> p \in Active(r)
       /\ clients[p].roomId = NoRoom <=> \A r \in RoomIds : p \notin Active(r)

\* A join has just moved a client out of a room where a peer remains.
C2_Witness ==
  /\ last.msg.type = "join"
  /\ \E i \in 1..Len(sent) :
       /\ sent[i].msg.type = "peer-left"
       /\ sent[i].msg.peerId = last.from
       /\ sent[i].msg.roomId # last.msg.roomId

\* How many messages of the given type a batch holds for q.
CountType(out, q, type) == Count(out, LAMBDA x : x.to = q /\ x.msg.type = type)

\* C3: a join(newRoom) from a client active in another room ends in the same
\* client and registry state, and sends every other client the same messages
\* in the same order, as a leave followed by that join; every other active
\* member of the old room gets exactly one peer-left (and one room-peer-left)
\* naming the caller and the old room, every active member of the new room
\* exactly one peer-joined (and one room-peer-joined) naming the caller and
\* the new room, and nobody else gets a peer-left or a peer-joined.
C3_JoinIsLeaveThenJoin ==
  [][LET p == last'.from
         msg == last'.msg
         old == clients[p].roomId
         new == msg.roomId
         B == handle(handle(Cur, p, [type |-> "leave"]), p, msg)
         left == [type |-> "peer-left", roomId |-> old, peerId |-> p]
         joined == [type |-> "peer-joined", roomId |-> new,
                    peer |-> toPeerSummary(clients', p)]
     IN (msg.type = "join" /\ old \notin {NoRoom, new}) =>
          /\ clients' = B.clients
          /\ rooms' = B.rooms
          /\ \A q \in Peers \ {p} : To(sent', q) = To(B.out, q)
          /\ \A q \in Peers :
               /\ CountType(sent', q, "peer-left") = IF q \in Active(old) \ {p} THEN 1 ELSE 0
               /\ CountType(sent', q, "room-peer-left")
                    = IF q \in (Active(old) \cup Watchers(old)) \ {p} THEN 1 ELSE 0
               /\ CountType(sent', q, "peer-joined") = IF q \in Active(new) THEN 1 ELSE 0
               /\ CountType(sent', q, "room-peer-joined")
                    = IF q \in (Active(new) \cup Watchers(new)) \ {p} THEN 1 ELSE 0
          /\ \A i \in 1..Len(sent') :
               /\ sent'[i].msg.type = "peer-left" => sent'[i].msg = left
               /\ sent'[i].msg.type = "peer-joined" => sent'[i].msg = joined]_vars

\* A join has just moved a client from a room where a peer stays into a room
\* that is watched: the peer got the leave, the watcher the room-peer-joined.
C3_Witness ==
  /\ last.msg.type = "join"
  /\ \E q \in Peers \ {last.from} :
       /\ CountType(sent, q, "peer-left") = 1
       /\ CountType(sent, q, "room-peer-joined") = 1
       /\ q \in Watchers(last.msg.roomId)
       /\ clients[q].roomId \notin {NoRoom, last.msg.roomId}

\* The joins handled so far, in order.
JoinsOf(tr) == SelectSeq(tr, LAMBDA e : e.msg.type = "join")

\* X, Y, Z joined room r in that order and nothing else was ever joined or left.
Scenario(X, Y, Z, r) ==
  LET js == JoinsOf(trace) IN
  /\ Cardinality({X, Y, Z}) = 3
  /\ Len(js) = 3
  /\ <<js[1].from, js[2].from, js[3].from>> = <<X, Y, Z>>
  /\ \A i \in 1..3 : js[i].msg.roomId = r

\* The peerIds of the peer-joined messages q received, in order.
PeerJoinedFor(q) ==
  LET pj == SelectSeq(inbox[q], LAMBDA m : m.type = "peer-joined")
  IN [i \in 1..Len(pj) |-> pj[i].peer.peerId]

\* The peerIds listed by the peers responses q received, one list per response.
PeersListed(q) ==
  LET ps == SelectSeq(inbox[q], LAMBDA m : m.type = "peers")
  IN [i \in 1..Len(ps) |-> [k \in 1..Len(ps[i].peers) |-> ps[i].peers[k].peerId]]

\* C4 as stated: after X, Y, Z joined the empty room in that order, X and Y
\* each received a peer-joined for the other, Z's peers response lists exactly
\* X and Y, and X and Y each received exactly one peer-joined for Z.
C4_AsStated ==
  \A X \in Peers, Y \in Peers, Z \in Peers, r \in RoomIds :
    Scenario(X, Y, Z, r) =>
      /\ Y \in Range(PeerJoinedFor(X))
      /\ X \in Range(PeerJoinedFor(Y))
      /\ PeersListed(Z) = << <<X, Y>> >>
      /\ Count(PeerJoinedFor(X), LAMBDA q : q = Z) = 1
      /\ Count(PeerJoinedFor(Y), LAMBDA q : q = Z) = 1

\* C4 (amended): after X, Y, Z joined the empty room in that order, X
\* received exactly one peer-joined for Y and one for Z, Y received exactly one
\* peer-joined for Z and none for X (it learns X from its peers response,
\* which lists exactly X), Z received no peer-joined and its peers response
\* lists exactly X and Y, and X's peers response lists nobody.
C4_ThreeJoins ==
  \A X \in Peers, Y \in Peers, Z \in Peers, r \in RoomIds :
    Scenario(X, Y, Z, r) =>
      /\ PeerJoinedFor(X) = <<Y, Z>>
      /\ PeerJoinedFor(Y) = <<Z>>
      /\ PeerJoinedFor(Z) = <<>>
      /\ PeersListed(X) = << <<>> >>
      /\ PeersListed(Y) = << <<X>> >>
      /\ PeersListed(Z) = << <<X, Y>> >>

\* The third join of the scenario has been handled.
C4_Witness ==
  \E X \in Peers, Y \in Peers, Z \in Peers, r \in RoomIds :
    Scenario(X, Y, Z, r) /\ last = [from |-> Z, msg |-> JoinsOf(trace)[3].msg]

\* The relay message the server forwards for msg received from p.
Forwarded(p, msg) ==
  IF msg.type = "ice"
    THEN [type |-> "ice", from |-> p, candidate |-> msg.candidate]
    ELSE [type |-> msg.type, from |-> p, sdp |-> msg.sdp]

\* C5: an offer, answer or ice addressed to `to` is written to exactly one
\* socket, that of peerId `to`, carrying the sender's peerId and the unchanged
\* sdp / candidate, and only when the sender is active in a room whose active
\* map holds `to`; otherwise nothing is sent; in both cases no client and no
\* room changes.
C5_RelayToTargetOnly ==
  [][LET p == last'.from
         msg == last'.msg
     IN msg.type \in {"offer", "answer", "ice"} =>
          /\ clients' = clients
          /\ rooms' = rooms
          /\ sent' = IF \E r \in RoomIds : p \in Active(r) /\ msg.to \in Active(r)
                       THEN <<[to |-> msg.to, msg |-> Forwarded(p, msg)]>>
                       ELSE <<>>]_vars

\* An ice candidate has been forwarded to a room mate while a third
\* connection is open.
C5_Witness ==
  /\ last.msg.type = "ice"
  /\ last.msg.to # last.from
  /\ sent = <<[to |-> last.msg.to, msg |-> Forwarded(last.from, last.msg)]>>
  /\ DOMAIN clients \ {last.from, last.msg.to} # {}

\* C6: a state message naming a room in which the caller is not active (it is
\* in no room, or in another room, also when it watches the named room) sends
\* nothing and changes no client (so not the caller's micOn / deafened) and no
\* room.
C6_StateElsewhereIsNoop ==
  [][LET p == last'.from
         msg == last'.msg
     IN (msg.type = "state" /\ p \notin Active(msg.roomId)) =>
          /\ sent' = <<>>
          /\ clients' = clients
          /\ rooms' = rooms]_vars

\* A client active in one room has sent a state that differs from its stored
\* one for another room, which it watches and where somebody is active.
C6_Witness ==
  /\ last.msg.type = "state"
  /\ clients[last.from].roomId \notin {NoRoom, last.msg.roomId}
  /\ last.from \in Watchers(last.msg.roomId)
  /\ Active(last.msg.roomId) # {}
  /\ last.msg.micOn # clients[last.from].micOn
  /\ sent = <<>>

\* C7: a state message from an active member of the room r it names stores
\* the micOn / deafened it carries (nothing else changes) and sends exactly
\* one peer-state, carrying r, the sender's peerId and those values, to every
\* client that is active in or watching r other than the sender, also to one
\* that is both, and nothing to anybody else.
C7_StateBroadcast ==
  [][LET p == last'.from
         msg == last'.msg
         r == msg.roomId
         ps == [type |-> "peer-state", roomId |-> r, peerId |-> p,
                micOn |-> msg.micOn, deafened |-> msg.deafened]
     IN (msg.type = "state" /\ p \in Active(r)) =>
          /\ clients' = [clients EXCEPT ![p].micOn = msg.micOn,
                                        ![p].deafened = msg.deafened]
          /\ rooms' = rooms
          /\ \A q \in Peers :
               Len(To(sent', q)) = IF q \in (Active(r) \cup Watchers(r)) \ {p} THEN 1 ELSE 0
          /\ \A i \in 1..Len(sent') : sent'[i].msg = ps]_vars

\* A state message has been broadcast in a room where another client is both
\* active and watching.
C7_Witness ==
  /\ last.msg.type = "state"
  /\ last.from \in Active(last.msg.roomId)
  /\ \E q \in Peers \ {last.from} :
       /\ q \in Active(last.msg.roomId) \cap Watchers(last.msg.roomId)
       /\ Len(To(sent, q)) = 1
  /\ clients[last.from].micOn

\* C8: watch(r) sends exactly one message, a room-peers to the caller listing
\* the summaries of the current active participants of r, changes no client
\* and no room's active map, adds nothing but the caller to r's watchers, and
\* a second watch(r) leaves the registry as the first one left it.
C8_WatchIdempotent ==
  [][LET p == last'.from
         msg == last'.msg
         r == msg.roomId
         act == IF r \in DOMAIN rooms THEN rooms[r].clients ELSE <<>>
         again == handle([clients |-> clients', rooms |-> rooms', out |-> <<>>], p, msg)
     IN msg.type = "watch" =>
          /\ sent' = <<[to |-> p,
                        msg |-> [type |-> "room-peers", roomId |-> r,
                                 peers |-> [i \in 1..Len(act) |->
                                              toPeerSummary(clients, act[i])]]]>>
          /\ clients' = clients
          /\ DOMAIN rooms' = DOMAIN rooms \cup {r}
          /\ \A x \in DOMAIN rooms' :
               /\ rooms'[x].clients = IF x \in DOMAIN rooms THEN rooms[x].clients ELSE <<>>
               /\ Range(rooms'[x].watchers) = Watchers(x) \cup (IF x = r THEN {p} ELSE {})
               /\ Len(rooms'[x].watchers) = Cardinality(Range(rooms'[x].watchers))
          /\ again.rooms = rooms'
          /\ again.clients = clients']_vars

\* A watch of a room with an active participant other than the caller has
\* been answered, by a caller that is active elsewhere.
C8_Witness ==
  /\ last.msg.type = "watch"
  /\ Len(sent) = 1
  /\ sent[1].to = last.from
  /\ \E i \in 1..Len(sent[1].msg.peers) : sent[1].msg.peers[i].peerId # last.from
  /\ last.from \in Watchers(last.msg.roomId)
  /\ clients[last.from].roomId \notin {NoRoom, last.msg.roomId}

\* C9: after a connection closes its peerId is in no room's active map and no
\* room's watcher map and its client object is gone, the messages sent are
\* exactly those of an explicit leave (peer-left to the other active members
\* of its room, room-peer-left to them and to the room's watchers), and no
\* room without active participants and watchers stays in the registry.
C9_CloseCleansUp ==
  [][LET p == last'.from
     IN last'.msg.type = "close" =>
          /\ p \notin DOMAIN clients'
          /\ \A r \in RoomIds : p \notin ActiveOf(Post, r) \cup WatchersOf(Post, r)
          /\ sent' = handle(Cur, p, [type |-> "leave"]).out
          /\ \A q \in Peers :
               /\ CountType(sent', q, "peer-left")
                    = IF \E r \in RoomIds : {p, q} \subseteq Active(r) /\ q # p THEN 1 ELSE 0
               /\ CountType(sent', q, "room-peer-left")
                    = IF \E r \in RoomIds :
                           p \in Active(r) /\ q \in (Active(r) \cup Watchers(r)) \ {p}
                        THEN 1 ELSE 0
          /\ \A r \in DOMAIN rooms' : ActiveOf(Post, r) \cup WatchersOf(Post, r) # {}
          /\ \A r \in DOMAIN rooms :
               r \in DOMAIN rooms' <=> (Active(r) \cup Watchers(r)) \ {p} # {}]_vars

\* A connection that had a room mate has closed: the mate, still active, got
\* one peer-left and one room-peer-left naming it.
C9_Witness ==
  /\ last.msg.type = "close"
  /\ last.from \notin DOMAIN clients
  /\ \E q \in DOMAIN clients :
       /\ clients[q].roomId # NoRoom
       /\ To(sent, q) = <<[to |-> q, msg |-> [type |-> "peer-left",
                                             roomId |-> clients[q].roomId,
                                             peerId |-> last.from]],
                          [to |-> q, msg |-> [type |-> "room-peer-left",
                                             roomId |-> clients[q].roomId,
                                             peerId |-> last.from]]>>

\* C10: a text or vad is fanned out only when the room it names is the room
\* the sender is active in: a text is then written exactly once to every
\* active member of that room, the sender included, a vad exactly once to
\* every active member but the sender; in every other case nothing is sent.
\* Neither changes a client or a room.
C10_TextVadFanout ==
  [][LET p == last'.from
         msg == last'.msg
         r == msg.roomId
         out == IF msg.type = "text"
                  THEN [type |-> "text", roomId |-> r, channelId |-> msg.channelId,
                        from |-> toPeerSummary(clients, p), message |-> msg.message]
                  ELSE [type |-> "vad", roomId |-> r, from |-> p,
                        speaking |-> msg.speaking]
         dest == IF p \notin Active(r) THEN {}
                 ELSE IF msg.type = "text" THEN Active(r) ELSE Active(r) \ {p}
     IN msg.type \in {"text", "vad"} =>
          /\ clients' = clients
          /\ rooms' = rooms
          /\ \A q \in Peers : Len(To(sent', q)) = IF q \in dest THEN 1 ELSE 0
          /\ \A i \in 1..Len(sent') : sent'[i].msg = out]_vars

\* A vad has reached the sender's room mate and not the sender.
C10_Witness ==
  /\ last.msg.type = "vad"
  /\ last.from \in Active(last.msg.roomId)
  /\ Recipients(sent) # {}
  /\ last.from \notin Recipients(sent)

\* C11: data that is not parseable, or that matches none of the
\* client-to-server shapes, is dropped: the callback writes to no socket,
\* the sender's included, and leaves every client and every room as it was.
C11_MalformedDropped ==
  [][(last'.msg.type = "message" /\ last'.msg.data \in Malformed) =>
       /\ sent' = <<>>
       /\ clients' = clients
       /\ rooms' = rooms]_vars

\* Malformed data naming a room has just arrived from a client that shares
\* that room with a peer: nothing was sent.
C11_Witness ==
  /\ last.msg.type = "message"
  /\ last.msg.data \in Malformed
  /\ last.msg.data.syntaxOk
  /\ has(last.msg.data.json, "roomId")
  /\ clients[last.from].roomId = last.msg.data.json.roomId
  /\ Active(last.msg.data.json.roomId) \ {last.from} # {}
  /\ sent = <<>>

\* The participant a server message names as its originator; 0 for the
\* messages that name none (welcome, peers, room-peers).
Originator(m) ==
  IF m.type \in {"offer", "answer", "ice", "vad"} THEN m.from
  ELSE IF m.type = "text" THEN m.from.peerId
  ELSE IF m.type \in {"peer-state", "peer-left", "room-peer-left"} THEN m.peerId
  ELSE IF m.type \in {"peer-joined", "room-peer-joined"} THEN m.peer.peerId
  ELSE 0

\* C12: every message a callback writes that names an originator (from of
\* offer, answer, ice, vad and text, peerId of peer-state and peer-left, the
\* peer of peer-joined, and their room- forms) names the connection the
\* callback ran for, whatever identity the data it received claims; the
\* welcome of a connection carries a peerId no connection had before, and
\* the summary of an open connection keeps naming that peerId.
C12_OriginatorIsSender ==
  [][/\ \A i \in 1..Len(sent') :
          /\ Originator(sent'[i].msg) \in {0, last'.from}
          /\ sent'[i].msg.type = "welcome" =>
               /\ sent'[i].msg.peerId = last'.from
               /\ sent'[i].to = last'.from
               /\ last'.from \notin used
     /\ used \subseteq used'
     /\ \A p \in DOMAIN clients' : toPeerSummary(clients', p).peerId = p]_vars

\* A client has just sent a relay message claiming to come from another open
\* connection, and the message was forwarded.
C12_Witness ==
  /\ last.msg.type = "message"
  /\ last.msg.data \in Claiming
  /\ last.msg.data.json.type \in {"offer", "ice"}
  /\ last.msg.data.json.from \in DOMAIN clients \ {last.from}
  /\ Len(sent) = 1
  /\ sent[1].msg.from = last.from

\* The membership notifications of a batch, in order, and each as the
\* triple of its recipient, its type and its room.
Notifications(out) ==
  SelectSeq(out, LAMBDA x : x.msg.type \in {"peers", "peer-left", "room-peer-left",
                                            "peer-joined", "room-peer-joined"})
Triples(out) == {<<out[i].to, out[i].msg.type, out[i].msg.roomId>> : i \in 1..Len(out)}

\* C13: a callback's mutation of the room maps and all the notifications it
\* causes are one step.  The step changes the membership and the client
\* record of no connection but the one it ran for, and its batch is the
\* notifications of exactly that change, sent to exactly the members the
\* step ends with: every other active member of a room the connection left
\* gets one peer-left, every other active member of the room it joined one
\* peer-joined, every other member or watcher the room- form, the joiner a
\* peers list of exactly the other active members, and nobody anything else
\* of these types.
C13_BatchReflectsOneMessage ==
  [][LET p == last'.from
         type == last'.msg.type
         old == IF p \in DOMAIN clients THEN clients[p].roomId ELSE NoRoom
         left == IF type \in {"join", "leave", "close"} /\ p \in Active(old)
                   THEN {old} ELSE {}
         joined == IF type = "join" THEN {last'.msg.roomId} ELSE {}
         act(r) == ActiveOf(Post, r) \ {p}
         all(r) == (ActiveOf(Post, r) \cup WatchersOf(Post, r)) \ {p}
         notes == Notifications(sent')
         expected ==
           UNION {{<<q, "peer-left", r>> : q \in act(r)}
                  \cup {<<q, "room-peer-left", r>> : q \in all(r)} : r \in left}
           \cup UNION {{<<q, "peer-joined", r>> : q \in act(r)}
                       \cup {<<q, "room-peer-joined", r>> : q \in all(r)}
                       \cup {<<p, "peers", r>>} : r \in joined}
     IN /\ \/ rooms' = rooms
           \/ \A r \in RoomIds :
                /\ Active(r) \ {p} = ActiveOf(Post, r) \ {p}
                /\ Watchers(r) \ {p} = WatchersOf(Post, r) \ {p}
        /\ \/ clients' = clients
           \/ \A q \in (DOMAIN clients \cap DOMAIN clients') \ {p} :
                clients'[q] = clients[q]
        /\ Triples(notes) = expected
        /\ Len(notes) = Cardinality(expected)
        /\ \A i \in 1..Len(notes) :
             notes[i].msg.type = "peers" =>
               /\ {notes[i].msg.peers[k].peerId : k \in 1..Len(notes[i].msg.peers)}
                    = act(notes[i].msg.roomId)
               /\ \A k \in 1..Len(notes[i].msg.peers) :
                    notes[i].msg.peers[k]
                      = toPeerSummary(clients', notes[i].msg.peers[k].peerId)]_vars

\* A connection that was active in a room with a peer has just closed: the
\* peer got one peer-left and one room-peer-left and is alone in the room.
C13_Witness ==
  /\ last.msg.type = "close"
  /\ last.from \notin DOMAIN clients
  /\ \E q \in DOMAIN clients, r \in RoomIds :
       /\ Triples(Notifications(sent)) = {<<q, "peer-left", r>>, <<q, "room-peer-left", r>>}
       /\ Active(r) = {q}

\* C19: from a disconnect() call until the next connect() call the client
\* creates no WebSocket and has no reconnect pending: the call cancels the
\* timer, and no close event, open event or timer callback that fires
\* afterwards sets a timer or opens a connection.
C19_DisconnectStaysDisconnected ==
  [][signaling'.lastCall = "disconnect" =>
       /\ Len(signaling'.sockets) = Len(signaling.sockets)
       /\ signaling'.timers = {}
       /\ signaling'.reconnectTimer = NoTimer
       /\ signaling'.ws = NoSocket]_vars

\* disconnect() was called while a reconnect was pending, and the close event
\* of a socket has fired since: nothing is scheduled.
C19_Witness ==
  /\ signaling.lastCall = "disconnect"
  /\ signaling.event.type = "close"
  /\ signaling.reconnectAttempts > 0
  /\ signaling.timersSet > 0
  /\ signaling.timers = {}

\* The close event of a socket the client did not close has just fired while
\* the caller wants the connection.
UnexpectedClose ==
  /\ signaling.event.type = "close"
  /\ signaling.event.unexpected
  /\ signaling.lastCall = "connect"

\* C20: after every close the client did not ask for, of an open socket or of
\* one that never opened, exactly one reconnect timer is pending, and unless
\* disconnect() is called the client then creates a new WebSocket; never is
\* more than one timer pending.
C20_ReconnectAfterDrop ==
  /\ [](Cardinality(signaling.timers) <= 1)
  /\ [](UnexpectedClose =>
          /\ Cardinality(signaling.timers) = 1
          /\ signaling.reconnectTimer # NoTimer)
  /\ \A n \in 0..(MaxCalls + MaxDrops) :
       (UnexpectedClose /\ Len(signaling.sockets) = n)
         ~> (Len(signaling.sockets) > n \/ signaling.lastCall = "disconnect")

\* Hosts g and h are in the room and each holds a link to the other.
Linked(g, h) ==
  /\ g # h
  /\ mesh[g].mesh /\ mesh[h].mesh
  /\ mesh[h].localPeerId \in DOMAIN mesh[g].peers
  /\ mesh[g].localPeerId \in DOMAIN mesh[h].peers

link(g, h) == mesh[g].peers[mesh[h].localPeerId]

\* C14: for every pair of distinct peers that hold links to each other,
\* exactly one of the two links is polite.
C14_ExactlyOnePolite ==
  \A g, h \in Hosts : Linked(g, h) => (link(g, h).polite # link(h, g).polite)

\* The offer that link g -> h made last.
\* Host h has sent an offer that g has not handled yet.
OfferInFlight(g, h) ==
  \E i \in 1..Len(mesh[h].inbox) :
    /\ mesh[h].inbox[i].type = "offer"
    /\ mesh[h].inbox[i].from = mesh[g].localPeerId
    /\ mesh[h].inbox[i].sdp.n = link(g, h).offers

\* Glare between polite g and impolite h: each has set and sent an offer,
\* and the two offers are on their way to the other side.
Glare(g, h) ==
  /\ Linked(g, h)
  /\ link(g, h).polite /\ ~link(h, g).polite
  /\ link(g, h).signalingState = "have-local-offer" /\ ~link(g, h).makingOffer
  /\ link(h, g).signalingState = "have-local-offer" /\ ~link(h, g).makingOffer
  /\ OfferInFlight(g, h)
  /\ OfferInFlight(h, g)

\* Polite g has answered the last offer of impolite h, and h has accepted
\* that answer; both links are stable.
Resolved(g, h) ==
  /\ Linked(g, h)
  /\ link(g, h).signalingState = "stable"
  /\ link(h, g).signalingState = "stable"
  /\ link(g, h).remoteOffer.type = "offer"
  /\ link(g, h).remoteOffer.by = mesh[h].localPeerId
  /\ link(g, h).remoteOffer.n = link(h, g).offers
  /\ link(h, g).remoteAnswer = link(g, h).remoteOffer

triggers(net) == net[1].triggers + net[2].triggers

C16_QueuedIceApplied ==
  \A g \in Hosts : \A r \in DOMAIN mesh[g].peers :
    LET c == mesh[g].peers[r] IN
    /\ (c.remoteDescription /\ c.ops = <<>>) =>
         /\ c.pendingIce = <<>>
         /\ c.applied = c.arrived
    /\ \A i, j \in 1..Len(c.applied) : i < j => c.applied[i].n < c.applied[j].n

\* Nothing is going on on link r of host g.
Quiet(g, r) ==
  LET c == mesh[g].peers[r] IN
  /\ c.ops = <<>>
  /\ c.signalingState = "stable"
  /\ ~c.makingOffer
  /\ ~c.needsNegotiation

\* C17: on every link, each publish that adds or removes the microphone
\* sender produces exactly one offer and a publish that replaces the track
\* produces none: once the link is at rest it has made one offer for each
\* add or remove, beside the first offer of the side that initiates.
C17_OneOfferPerChange ==
  \A g \in Hosts : \A r \in DOMAIN mesh[g].peers :
    Quiet(g, r) =>
      mesh[g].peers[r].offers =
        mesh[g].peers[r].changes + (IF mesh[g].peers[r].dc THEN 1 ELSE 0)

\* A link as ensurePeer leaves it: nothing of an earlier link is in it, and
\* on the side that initiates the first offer is being made.
Fresh(M, r) ==
  LET c == M.peers[r] IN
  /\ c.born >= M.epoch
  /\ c.born = M.clock - 1
  /\ c.signalingState = "stable"
  /\ ~c.needsNegotiation
  /\ ~c.remoteDescription /\ ~c.localDescription
  /\ c.pendingIce = <<>>
  /\ c.offers = 0
  /\ c.makingOffer = c.polite
  /\ c.makingOffer => (c.ops # <<>> /\ Head(c.ops).op = "createOffer")

\* C18: when the control connection of a desktop drops, mid-negotiation or
\* not, its links are discarded with its mesh; the mesh it joins with again
\* holds only links created after the rejoin, and every link is created
\* with clean flags, the initiating side starting a new negotiation at once.
C18_FreshLinksAfterRejoin ==
  /\ [](\A h \in Hosts : ~mesh[h].mesh => mesh[h].peers = <<>>)
  /\ [](\A h \in Hosts : \A r \in DOMAIN mesh[h].peers :
          mesh[h].peers[r].born >= mesh[h].epoch)
  /\ [][\A h \in Hosts :
          /\ mesh'[h].event = "drop" /\ mesh[h].event # "drop" => mesh'[h].peers = <<>>
          /\ \A r \in DOMAIN mesh'[h].peers \ DOMAIN mesh[h].peers :
               mesh'[h] # mesh[h] => Fresh(mesh'[h], r)]_vars

\* A desktop that dropped with an offer sent and not answered has rejoined
\* under its new peerId, and its new link to the other desktop has set and
\* sent a first offer while the other desktop holds a link to the new
\* peerId.
C18_Witness ==
  \E h \in Hosts : \E g \in Hosts \ {h} :
    /\ mesh[h].midDrop
    /\ Linked(h, g)
    /\ link(h, g).born >= mesh[h].epoch
    /\ mesh[h].epoch > 0
    /\ link(h, g).offers = 1
    /\ link(h, g).signalingState = "have-local-offer"

\* C21: the open event of a socket resets reconnectAttempts to 0, and the
\* first reconnect scheduled after an open event waits the smallest base
\* delay, 1000 ms, plus the jitter.
C21_OpenResetsBackoff ==
  /\ [][signaling'.event.type = "open" => signaling'.reconnectAttempts = 0]_vars
  /\ [][(signaling.opened /\ signaling'.timersSet > signaling.timersSet) =>
          \E t \in signaling'.timers :
            /\ t.id = signaling'.timersSet
            /\ t.delay \in {1000 + j : j \in Jitters}]_vars

\* A reconnect had been scheduled, a socket opened after it, and the close
\* of a socket has now scheduled the first reconnect since that open.
C21_Witness ==
  /\ signaling.event.type = "close"
  /\ signaling.timersSet >= 2
  /\ signaling.reconnectAttempts = 1
  /\ ~signaling.opened
  /\ \E t \in signaling.timers : t.id = signaling.timersSet /\ t.delay < 2000

\* C22: ensurePeer for a peerId that has a link changes nothing, in any
\* state the mesh reaches; and when an offer arrives on a link that exists,
\* the ensurePeer at the head of the offer handler creates no connection
\* (clock) and no data channel and leaves the link's own offer state, its
\* sender and its queued candidates as they were.
C22_EnsurePeerIdempotent ==
  /\ [](\A h \in Hosts : \A r \in DOMAIN mesh[h].peers :
          ensurePeer(mesh[h], r) = mesh[h])
  /\ [][\A h \in Hosts :
          (mesh'[h].event = "deliver" /\ mesh[h].inbox # <<>>
             /\ mesh'[h].inbox = Tail(mesh[h].inbox)
             /\ Head(mesh[h].inbox).type = "offer"
             /\ Head(mesh[h].inbox).from \in DOMAIN mesh[h].peers)
          => LET r == Head(mesh[h].inbox).from
                 c == mesh[h].peers[r]
             IN /\ mesh'[h].clock = mesh[h].clock
                /\ DOMAIN mesh'[h].peers = DOMAIN mesh[h].peers
                /\ mesh'[h].peers[r].born = c.born
                /\ mesh'[h].peers[r].dc = c.dc
                /\ mesh'[h].peers[r].makingOffer = c.makingOffer
                /\ mesh'[h].peers[r].needsNegotiation = c.needsNegotiation
                /\ mesh'[h].peers[r].micAudioSender = c.micAudioSender
                /\ mesh'[h].peers[r].pendingIce = c.pendingIce
                /\ mesh'[h].peers[r].signalingState = c.signalingState
                /\ mesh'[h].out = <<>>]_vars

\* An offer was handled on a link that had made an offer of its own, holds
\* the data channel and a microphone sender.
C22_Witness ==
  \E h \in Hosts : \E r \in DOMAIN mesh[h].peers :
    /\ mesh[h].event = "deliver"
    /\ mesh[h].peers[r].dc
    /\ mesh[h].peers[r].offers >= 1
    /\ mesh[h].peers[r].micAudioSender # NoTrack
    /\ mesh[h].peers[r].remoteOffer.type = "none"
    /\ \E i \in 1..Len(mesh[h].peers[r].ops) :
         /\ mesh[h].peers[r].ops[i].op = "setRemoteDescription"
         /\ mesh[h].peers[r].ops[i].type = "offer"

\* C23: peer-left removes the link of the peer also while an offer is being
\* made or a handler awaits an operation on it, and changes no other link
\* (had the mesh a link to a further peer x, it would be left as it was);
\* afterwards nothing resumes for the removed link: a message is sent only
\* for a link the mesh holds, and a step that is not the delivery of a
\* message adds no link.
C23_PeerLeftMidFlight ==
  /\ [][\A h \in Hosts :
          (mesh'[h].event \in {"deliver", "left-busy"} /\ mesh[h].inbox # <<>>
             /\ mesh'[h].inbox = Tail(mesh[h].inbox)
             /\ Head(mesh[h].inbox).type = "peer-left")
          => /\ Head(mesh[h].inbox).peerId \notin DOMAIN mesh'[h].peers
             /\ mesh'[h].out = <<>>
             /\ \A x \in Ids :
                  (x # Head(mesh[h].inbox).peerId /\ x # mesh[h].localPeerId
                     /\ x \notin DOMAIN mesh[h].peers) =>
                    LET M2 == ensurePeer(mesh[h], x)
                        M3 == handleSignaling(M2, Head(mesh[h].inbox))
                    IN /\ DOMAIN M3.peers = DOMAIN M2.peers \ {Head(mesh[h].inbox).peerId}
                       /\ M3.peers[x] = M2.peers[x]
                       /\ M3.out = M2.out]_vars
  /\ [](\A h \in Hosts : \A i \in 1..Len(mesh[h].out) :
          mesh[h].out[i].to \in DOMAIN mesh[h].peers)
  /\ [][\A h \in Hosts :
          mesh'[h].event \notin {"deliver", "left-busy"} =>
            DOMAIN mesh'[h].peers \subseteq DOMAIN mesh[h].peers]_vars

\* The peer-left of a peer arrived while the link to it was making an offer
\* or had an operation pending, and the link is gone.
C23_Witness ==
  \E h \in Hosts :
    /\ mesh[h].event = "left-busy"
    /\ mesh[h].mesh
    /\ mesh[h].peers = <<>>

\* C24: closeAll leaves the peers map empty, and nothing is sent for a
\* negotiation it interrupted: the call itself sends nothing, a desktop
\* without a mesh sends nothing, and every offer or answer sent later is
\* for a link created after the call, an offer being the link's own and an
\* answer answering an offer of the peer it goes to.
C24_CloseAllCancels ==
  /\ [][\A h \in Hosts :
          (mesh[h].mesh /\ ~mesh'[h].mesh) =>
            (closeAll(mesh[h]).peers = <<>> /\ mesh'[h].peers = <<>> /\ mesh'[h].out = <<>>)]_vars
  /\ [](\A h \in Hosts : ~mesh[h].mesh => mesh[h].out = <<>>)
  /\ [](\A h \in Hosts : \A i \in 1..Len(mesh[h].out) :
          LET m == mesh[h].out[i] IN
          /\ m.to \in DOMAIN mesh[h].peers
          /\ mesh[h].peers[m.to].born >= mesh[h].epoch
          /\ m.type = "offer" => m.sdp.by = mesh[h].localPeerId
          /\ m.type = "answer" => m.sdp.answers.by = m.to)

\* closeAll has just run on a mesh that had sent an offer and was waiting
\* for the answer, while the other desktop still holds its link.
C24_Witness ==
  \E h \in Hosts :
    /\ mesh[h].event = "drop"
    /\ mesh[h].midDrop
    /\ ~mesh[h].mesh
    /\ mesh[h].peers = <<>>
    /\ \E g \in Hosts \ {h} : mesh[g].mesh /\ mesh[g].peers # <<>>

\* The offer number n of g has been accepted by h, or an answer to it is on
\* its way to g or has been accepted by g.
Accepted(g, h, n) ==
  /\ Linked(g, h)
  /\ \/ /\ link(h, g).remoteOffer.type = "offer"
        /\ link(h, g).remoteOffer.by = mesh[g].localPeerId
        /\ link(h, g).remoteOffer.n = n
     \/ /\ link(g, h).remoteAnswer.type = "offer"
        /\ link(g, h).remoteAnswer.n = n
     \/ \E i \in 1..Len(mesh[g].inbox) :
          /\ mesh[g].inbox[i].type = "answer"
          /\ mesh[g].inbox[i].sdp.answers.by = mesh[g].localPeerId
          /\ mesh[g].inbox[i].sdp.answers.n = n

\* Offer n of the polite side, or of the impolite side, has been accepted.
PoliteAccepted(n) ==
  \E g, h \in Hosts :
    Linked(g, h) /\ link(g, h).polite /\ ~link(h, g).polite /\ Accepted(g, h, n)

ImpoliteAccepted(n) ==
  \E g, h \in Hosts :
    Linked(g, h) /\ link(g, h).polite /\ ~link(h, g).polite /\ Accepted(h, g, n)

C26_ExactlyOneInitiates ==
  \A g, h \in Hosts :
    Linked(g, h) =>
      /\ link(g, h).dc # link(h, g).dc
      /\ link(g, h).dc <=> (link(g, h).makingOffer \/ link(g, h).offers > 0)

\* setLocalAudioTrack of host h has just called negotiate on its link to r,
\* and the link was making an offer or was not stable at the call.
NegotiateWhileBusy(h, r) ==
  /\ r \in DOMAIN mesh[h].peers
  /\ r \in DOMAIN mesh'[h].peers
  /\ mesh'[h].event = "publish"
  /\ mesh'[h].peers[r].changes > mesh[h].peers[r].changes
  /\ mesh[h].peers[r].makingOffer \/ mesh[h].peers[r].signalingState # "stable"

\* C27: a negotiate call on a link that is making an offer, or whose
\* signaling state is not stable, starts no offer, sends nothing, and leaves
\* the needs-renegotiation flag of the link set.
C27_BusyNegotiateDefers ==
  [][\A h \in Hosts : \A r \in Ids :
       NegotiateWhileBusy(h, r) =>
         /\ mesh'[h].peers[r].needsNegotiation
         /\ mesh'[h].peers[r].ops = mesh[h].peers[r].ops
         /\ mesh'[h].out = <<>>]_vars

\* C28: a step that brings a link with the needs-renegotiation flag set
\* back to stable clears the flag and starts the creation of an offer, and
\* once a link with a deferred renegotiation is stable again it eventually
\* sends an offer it had not sent when the renegotiation was deferred.
C28_DeferredRetried ==
  /\ [][\A h \in Hosts : \A r \in Ids :
          (/\ r \in DOMAIN mesh[h].peers
           /\ r \in DOMAIN mesh'[h].peers
           /\ mesh[h].peers[r].born = mesh'[h].peers[r].born
           /\ mesh[h].peers[r].needsNegotiation
           /\ mesh[h].peers[r].signalingState # "stable"
           /\ mesh'[h].peers[r].signalingState = "stable")
          => /\ ~mesh'[h].peers[r].needsNegotiation
             /\ mesh'[h].peers[r].makingOffer
             /\ Len(mesh'[h].peers[r].ops) > 0
             /\ mesh'[h].peers[r].ops[Len(mesh'[h].peers[r].ops)].op = "createOffer"]_vars
  /\ \A n \in 0..(MaxInputs + 1) : \A g \in Hosts : \A h \in Hosts \ {g} :
       [](((Linked(g, h) /\ link(g, h).needsNegotiation /\ link(g, h).offers = n))
            => []((Linked(g, h) /\ link(g, h).signalingState = "stable"
                     /\ link(g, h).offers = n)
                  => <>(Linked(g, h) /\ link(g, h).offers > n)))

\* A negotiate call on link c is between its createOffer and its finally.
Negotiating(c) == \E i \in 1..Len(c.ops) : c.ops[i].k = "negotiate"

\* C29: makingOffer of a link is true exactly while a negotiate call on it
\* is under way, so it is false once the call has finished, with the offer
\* sent or with createOffer or setLocalDescription rejected; and a negotiate
\* call on a stable link with makingOffer false starts createOffer.
C29_MakingOfferCleared ==
  /\ [](\A h \in Hosts : \A r \in DOMAIN mesh[h].peers :
          LET c == mesh[h].peers[r] IN
          /\ c.makingOffer <=> Negotiating(c)
          /\ (~c.makingOffer /\ c.signalingState = "stable")
               => negotiate(mesh[h], r).peers[r].ops =
                    Append(c.ops, [op |-> "createOffer", k |-> "negotiate"]))
  /\ [][\A h \in Hosts : \A r \in Ids :
          (/\ r \in DOMAIN mesh[h].peers
           /\ r \in DOMAIN mesh'[h].peers
           /\ mesh'[h].event = "publish"
           /\ mesh'[h].peers[r].changes > mesh[h].peers[r].changes
           /\ ~mesh[h].peers[r].makingOffer
           /\ mesh[h].peers[r].signalingState = "stable")
          => /\ mesh'[h].peers[r].makingOffer
             /\ mesh'[h].peers[r].ops =
                  Append(mesh[h].peers[r].ops, [op |-> "createOffer", k |-> "negotiate"])]_vars

\* createOffer or setLocalDescription of a negotiate call has just been
\* rejected on a link, which is left with makingOffer false.
C29_Witness ==
  \E h \in Hosts : \E r \in DOMAIN mesh[h].peers :
    /\ mesh[h].event = "offer-failed"
    /\ mesh[h].peers[r].changes > mesh[h].peers[r].offers
    /\ ~mesh[h].peers[r].makingOffer
    /\ ~Negotiating(mesh[h].peers[r])

\* Nothing is on its way or pending between g and h: no message in either
\* inbox and no operation on either link.
Idle(g, h) ==
  /\ Linked(g, h)
  /\ mesh[g].inbox = <<>> /\ mesh[h].inbox = <<>>
  /\ link(g, h).ops = <<>> /\ link(h, g).ops = <<>>

\* C30: a rejected primitive in the offer or answer handler does not block
\* the link: when nothing is pending or on its way between two peers, no
\* link between them is left outside stable, where every negotiate call
\* would only be deferred.
C30_NotBlocked ==
  \A g, h \in Hosts :
    Idle(g, h) => /\ link(g, h).signalingState = "stable"
                  /\ link(h, g).signalingState = "stable"

\* Host h takes from its inbox a candidate of r that r gathered while it
\* was stable, after h has applied r's answer to the last offer h sent.
IceForAnswered(h, r) ==
  /\ mesh[h].inbox # <<>>
  /\ mesh'[h].inbox = Tail(mesh[h].inbox)
  /\ mesh'[h].event = "deliver"
  /\ Head(mesh[h].inbox).type = "ice"
  /\ Head(mesh[h].inbox).from = r
  /\ Head(mesh[h].inbox).candidate.state = "stable"
  /\ r \in DOMAIN mesh[h].peers
  /\ mesh[h].peers[r].offers > 0
  /\ mesh[h].peers[r].remoteAnswer.type = "offer"
  /\ mesh[h].peers[r].remoteAnswer.by = mesh[h].localPeerId
  /\ mesh[h].peers[r].remoteAnswer.n = mesh[h].peers[r].offers

\* C31: a candidate that the remote side gathered for the answer to this
\* side's own offer is not dropped by the ignoreOffer guard: it is handed to
\* addIceCandidate or queued in pendingIce.
C31_AnsweredIceKept ==
  [][\A h \in Hosts : \A r \in Ids :
       IceForAnswered(h, r) =>
         LET c == mesh[h].peers[r]
             d == mesh'[h].peers[r]
             cand == Head(mesh[h].inbox).candidate
         IN \/ d.pendingIce = Append(c.pendingIce, cand)
            \/ /\ Len(d.ops) = Len(c.ops) + 1
               /\ d.ops[Len(d.ops)].op = "addIceCandidate"
               /\ d.ops[Len(d.ops)].candidate = cand]_vars

\* Host h takes an answer of r from its inbox.
AnswerArrives(h, r) ==
  /\ mesh[h].inbox # <<>>
  /\ mesh'[h].inbox = Tail(mesh[h].inbox)
  /\ mesh'[h].event \in {"deliver", "left-busy"}
  /\ Head(mesh[h].inbox).type = "answer"
  /\ Head(mesh[h].inbox).from = r

\* C32: an answer that reaches a peer finds the link to its sender in
\* have-local-offer with no operation of the offer handler pending, and it
\* answers the last offer the link has set and sent.
C32_AnswerFindsOffer ==
  [][\A h \in Hosts : \A r \in Ids :
       AnswerArrives(h, r) =>
         /\ r \in DOMAIN mesh[h].peers
         /\ LET c == mesh[h].peers[r]
                a == Head(mesh[h].inbox).sdp.answers
            IN /\ c.signalingState = "have-local-offer"
               /\ \A i \in 1..Len(c.ops) : c.ops[i].k # "offer"
               /\ \A i \in 1..Len(c.ops) :
                    ~(c.ops[i].op = "setLocalDescription" /\ c.ops[i].type = "rollback")
               /\ a.type = "offer"
               /\ a.by = mesh[h].localPeerId
               /\ a.n = c.offers]_vars

\* C33: every link of a desktop has a sender for the microphone, for the
\* screen audio and for the screen video exactly when the desktop has a
\* local track for that slot.
C33_SendersMatchTracks ==
  \A h \in Hosts : \A r \in DOMAIN mesh[h].peers :
    LET c == mesh[h].peers[r] IN
    /\ c.micAudioSender # NoTrack <=> mesh[h].localAudioTrack # NoTrack
    /\ c.screenAudioSender # NoTrack <=> mesh[h].localScreenAudioTrack # NoTrack
    /\ c.screenVideoSender # NoTrack <=> mesh[h].localScreenTrack # NoTrack

\* A link just made by a desktop that had published its microphone and its
\* screen with audio before, with a sender for each of the three.
C33_Witness ==
  \E h \in Hosts : \E r \in DOMAIN mesh[h].peers :
    /\ mesh[h].event = "deliver"
    /\ mesh[h].peers[r].born = mesh[h].clock - 1
    /\ mesh[h].peers[r].changes = 0
    /\ mesh[h].peers[r].micAudioSender # NoTrack
    /\ mesh[h].peers[r].screenAudioSender # NoTrack
    /\ mesh[h].peers[r].screenVideoSender # NoTrack

\* The room p was active in when event i of tr happened: the room of its
\* last join before i (tr holds connections, joins and state messages).
RoomAt(tr, p, i) ==
  LET js == {j \in 1..(i - 1) : tr[j].from = p /\ tr[j].msg.type = "join"}
  IN IF js = {} THEN NoRoom
     ELSE tr[CHOOSE j \in js : \A k \in js : k <= j].msg.roomId

\* The micOn / deafened values that p has set by a state message for r sent
\* while it was active in r, and the initial values.
SetIn(tr, p, r) ==
  {[micOn |-> FALSE, deafened |-> FALSE]}
  \cup {[micOn |-> tr[i].msg.micOn, deafened |-> tr[i].msg.deafened] :
          i \in {j \in 1..Len(tr) : /\ tr[j].from = p
                                    /\ tr[j].msg.type = "state"
                                    /\ tr[j].msg.roomId = r
                                    /\ RoomAt(tr, p, j) = r}}

\* The summaries of participants that message m carries.
Shown(m) ==
  IF m.type \in {"peers", "room-peers"} THEN {m.peers[i] : i \in 1..Len(m.peers)}
  ELSE IF m.type \in {"peer-joined", "room-peer-joined"} THEN {m.peer}
  ELSE IF m.type = "peer-state"
    THEN {[peerId |-> m.peerId, micOn |-> m.micOn, deafened |-> m.deafened]}
  ELSE {}

\* C34: every micOn / deafened value the server sends about participant p
\* of room r was set by a state message that p sent for r while active in
\* r, or is the initial false / false.
C34_NoCrossRoomState ==
  [][\A i \in 1..Len(sent') : \A x \in Shown(sent'[i].msg) :
       [micOn |-> x.micOn, deafened |-> x.deafened]
         \in SetIn(trace', x.peerId, sent'[i].msg.roomId)]_vars

\* C35: a reconnect scheduled when n reconnects have been scheduled since
\* the last open event waits 1000, 2000, 4000, 8000 ms for n = 0..3 and
\* 10000 ms from n = 4 on, plus a jitter of 0..249 ms, and is the n+1st; n
\* goes back only to 0 and only on an open event, so between two opens the
\* base never decreases.
C35_BackoffDelay ==
  /\ [][signaling'.timersSet > signaling.timersSet =>
          LET n == signaling.reconnectAttempts
              base == IF n = 0 THEN 1000 ELSE IF n = 1 THEN 2000
                      ELSE IF n = 2 THEN 4000 ELSE IF n = 3 THEN 8000 ELSE 10000
          IN /\ signaling'.reconnectAttempts = n + 1
             /\ \E t \in signaling'.timers :
                  /\ t.id = signaling'.timersSet
                  /\ t.delay - base \in 0..249]_vars
  /\ [][signaling'.reconnectAttempts < signaling.reconnectAttempts =>
          /\ signaling'.event.type = "open"
          /\ signaling'.reconnectAttempts = 0]_vars

\* The fifth reconnect in a row without an open event has been scheduled,
\* at the cap of 10000 ms.
C35_Witness ==
  /\ signaling.event.type = "close"
  /\ signaling.reconnectAttempts = 5
  /\ \E t \in signaling.timers :
       t.id = signaling.timersSet /\ t.delay >= 10000 /\ t.delay < 10250

\* Host M with a further link, to peer x, in state c.
withLink(M, x, c) == [M EXCEPT !.peers = @ @@ (x :> c)]

\* Host N without its link to x.
withoutLink(N, x) == [N EXCEPT !.peers = [y \in DOMAIN @ \ {x} |-> @[y]]]

\* The states a further link is tried in: those of the links M has, and
\* that of a link just made.
LinkStates(M, x) == {M.peers[r] : r \in DOMAIN M.peers} \cup {newConn(M, x)}

\* The peer that signaling message msg is from or about.
about(msg) == IF msg.type = "peer-left" THEN msg.peerId ELSE msg.from

\* C36: what a desktop does for one peer leaves its link to any other peer
\* as it is, whatever state that link is in, and does not depend on it: the
\* handling of the next offer, answer, candidate or peer-left in its inbox,
\* the settling of the pending operation of a link with the code that awaits
\* it, and a negotiate call on a link.
C36_LinksIndependent ==
  \A h \in Hosts : \A M \in {begin(mesh[h])} :
    \A x \in Ids \ (DOMAIN M.peers \cup {M.localPeerId}) :
      \A c \in LinkStates(M, x) : \A W \in {withLink(M, x, c)} :
        /\ (M.mesh /\ M.inbox # <<>>
              /\ Head(M.inbox).type \in {"offer", "answer", "ice", "peer-left"}
              /\ about(Head(M.inbox)) # x)
             => \A N \in {handleSignaling(W, Head(M.inbox))} :
                  /\ x \in DOMAIN N.peers
                  /\ N.peers[x] = c
                  /\ withoutLink(N, x) = handleSignaling(M, Head(M.inbox))
        /\ \A r \in DOMAIN M.peers :
             /\ \A N \in {negotiate(W, r)} :
                  N.peers[x] = c /\ withoutLink(N, x) = negotiate(M, r)
             /\ M.peers[r].ops # <<>> =>
                  \A lax \in BOOLEAN : \A N \in {settle(W, r, lax)} :
                    N.peers[x] = c /\ withoutLink(N, x) = settle(M, r, lax)

\* A desktop is about to handle an offer while a link of it is making an
\* offer of its own, the operation of that link pending.
C36_Witness ==
  \E h \in Hosts : \E r \in DOMAIN mesh[h].peers :
    /\ mesh[h].inbox # <<>>
    /\ Head(mesh[h].inbox).type = "offer"
    /\ mesh[h].peers[r].makingOffer
    /\ mesh[h].peers[r].ops # <<>>

\* C37: a SignalingClient never has more than one socket that is connecting
\* or open, whatever the order of connect(), disconnect(), timer firings and
\* open and close events, a late close event of an earlier socket included.
C37_OneLiveSocket ==
  Cardinality({s \in DOMAIN signaling.sockets :
                 signaling.sockets[s] \in {"CONNECTING", "OPEN"}}) <= 1

\* Nothing is on its way between hosts g and h, nothing is pending on their
\* links and both links are stable: only a new publish or a new member can
\* make them act again.
AtRest(g, h) ==
  /\ Linked(g, h)
  /\ mesh[g].inbox = <<>> /\ mesh[h].inbox = <<>>
  /\ Quiet(g, mesh[h].localPeerId) /\ Quiet(h, mesh[g].localPeerId)

\* C38: no trigger of a renegotiation is lost for good: once every message
\* between two linked desktops is delivered, every operation on their links
\* has settled and both are stable with no renegotiation marked as needed,
\* the last offer each side has sent was created after
\* the last add or remove of a sender on its link (offered is the number of
\* adds and removes that the last offer sent was created after).
C38_TriggerNotLost ==
  \A g \in Hosts : \A h \in Hosts \ {g} :
    AtRest(g, h) => link(g, h).offered >= link(g, h).changes

\* The peers a desktop holds links to after the messages msgs, having held
\* v: peers and peer-joined add links (a join starts from a new PeerMesh),
\* peer-left deletes one.
RECURSIVE viewAfter(_, _)
viewAfter(v, msgs) ==
  IF msgs = <<>> THEN v
  ELSE LET m == Head(msgs)
           v1 == IF m.type = "peers"
                   THEN {m.peers[i].peerId : i \in 1..Len(m.peers)}
                 ELSE IF m.type = "peer-joined" THEN v \cup {m.peer.peerId}
                 ELSE IF m.type = "peer-left" THEN v \ {m.peerId}
                 ELSE v
       IN viewAfter(v1, Tail(msgs))

view(m) == viewAfter({}, inbox[m])

\* C39: for every client m active in a room, the peers of its last join
\* with every later peer-joined added and every later peer-left removed, in
\* the order the server sent them, are the active members of the room
\* other than m.
C39_ViewIsMembership ==
  \A m \in DOMAIN clients :
    inRoom(Cur, m) => view(m) = Range(rooms[clients[m].roomId].clients) \ {m}

\* A client has seen a member join and a member leave since its own join,
\* and a member is with it in the room.
C39_Witness ==
  \E m \in DOMAIN clients :
    /\ inRoom(Cur, m)
    /\ view(m) # {}
    /\ \E i, j, k \in 1..Len(inbox[m]) :
         /\ i < j /\ j < k
         /\ inbox[m][i].type = "peers"
         /\ inbox[m][j].type = "peer-joined"
         /\ inbox[m][k].type = "peer-left"

\* Client w watches room r of rooms rs and is not active in it.
WatchesOnly(rs, w, r) ==
  /\ r \in DOMAIN rs
  /\ w \in Range(rs[r].watchers)
  /\ w \notin Range(rs[r].clients)

\* Message m is about room r, or is relayed from an active member of r.
AboutRoom(rs, m, r) ==
  \/ "roomId" \in DOMAIN m /\ m.roomId = r
  \/ m.type \in {"offer", "answer", "ice"} /\ m.from \in Range(rs[r].clients)

\* C40: a client that watches room r and is not active in it is sent about
\* r nothing but room-peers, room-peer-joined, room-peer-left and peer-state
\* (no peer-joined, peer-left, text or vad of r and no offer, answer or ice
\* from a member of r), and no message of it makes the server send an
\* offer, answer, ice, text or vad to a member of r.
C40_WatcherIsolated ==
  [][\A i \in 1..Len(sent') :
       \A r \in DOMAIN rooms' :
         /\ WatchesOnly(rooms', sent'[i].to, r) /\ AboutRoom(rooms', sent'[i].msg, r)
              => sent'[i].msg.type \in {"room-peers", "room-peer-joined",
                                        "room-peer-left", "peer-state"}
         /\ WatchesOnly(rooms', last'.from, r)
               /\ sent'[i].msg.type \in {"offer", "answer", "ice", "text", "vad"}
              => sent'[i].to \notin Range(rooms'[r].clients)]_vars

\* A client that watches a room with a member in it, and is active in
\* another room, has sent a text that the server delivered.
C40_Witness ==
  \E r \in DOMAIN rooms : \E w \in DOMAIN clients :
    /\ WatchesOnly(rooms, w, r)
    /\ rooms[r].clients # <<>>
    /\ last.from = w
    /\ last.msg.type = "text"
    /\ sent # <<>>

====
